---- MODULE Spec2Model ----
(***************************************************************************)
(* Connection registry of the chat application: GlobalMcpClientManager     *)
(* (src/lib/mcp/global-client-manager.ts) and its duplicate                *)
(* McpClientManager (src/lib/mcp/client-manager.ts).                       *)
(*                                                                         *)
(* The registry is two tables shared by every request of the process:      *)
(*   clients : server id -> live handle (client + transport)               *)
(*   states  : server id -> McpServerState snapshot                        *)
(* Every method is an async function.  JavaScript runs one such function   *)
(* without interruption until its next await, so one action of the model   *)
(* is one such synchronous stretch of a call made by one caller (one       *)
(* request); callers interleave at the awaits only.                        *)
(***************************************************************************)
EXTENDS Naturals, Sequences, FiniteSets

\* ------------------------------------------------------------------ bounds
\* Channels the model lets client.connect open in one behaviour.
MaxChannels == 2

\* refreshCapabilities calls the model lets one behaviour make.
MaxRefresh == 1

\* Two requests being served at the same time, each making one registry call
\* after another.
Callers == {"r1", "r2"}
Ids == {"s1"}
Kinds == {"tools", "prompts", "resources"}
RequestOps == {"callTool", "getPrompt", "readResource"}

VARIABLES
  clients,   \* globalState.clients: id -> index into chan (the handle)
  states,    \* globalState.states:  id -> state record
  chan,      \* every channel ever opened by client.connect: [id, open]
  calls,     \* per caller: the call in progress and where it is suspended
  refreshes, \* refreshCapabilities calls made so far
  ev,        \* what the last step did (a history variable)
  run,       \* the chat request being served by POST /api/chat
  stream,    \* the events enqueued on the response stream, in order
  ident,     \* a tool identifier on its way from declaration to execution
  proc,      \* the server process: global object, modules, managers, tables
  ctx,       \* the browser's McpProvider: servers and the config import/export
  twin,      \* the two registry implementations driven by the same calls
  page       \* the chat page reading the response stream

vars == <<clients, states, chan, calls, refreshes, ev, run, stream, ident, proc, ctx, twin, page>>

\* What the registry's own steps leave alone.
Apart == UNCHANGED <<run, stream, ident, proc, ctx, twin, page>>

\* ------------------------------------------------------------- data model
\* An optional field is the empty sequence when absent and a one-element
\* sequence holding the value when present.
None == << >>
Some(x) == <<x>>
Present(o) == Len(o) = 1

\* McpServerConfig samples: a valid stdio config, a valid streamable-http
\* config, an sse config without url.
ConfigsOf(i) ==
  { [id |-> i, transport |-> "stdio", command |-> TRUE, url |-> FALSE],
    [id |-> i, transport |-> "streamable-http", command |-> FALSE, url |-> TRUE],
    [id |-> i, transport |-> "sse", command |-> FALSE, url |-> FALSE] }

Configs == UNION { ConfigsOf(i) : i \in Ids }

NoConfig == [id |-> "", transport |-> "", command |-> FALSE, url |-> FALSE]

\* What the server behind an id answers to listTools / listPrompts /
\* listResources when the listing succeeds.
ServerList(i, k) == << i, k >>

\* The message of the error thrown by the transport switch, "" when the
\* config passes.
ValidationError(cfg) ==
  CASE cfg.transport = "stdio" ->
         IF ~cfg.command THEN "Command is required for STDIO transport" ELSE ""
    [] cfg.transport = "streamable-http" ->
         IF ~cfg.url THEN "URL is required for Streamable HTTP transport" ELSE ""
    [] cfg.transport = "sse" ->
         IF ~cfg.url THEN "URL is required for SSE transport" ELSE ""
    [] OTHER -> "Unsupported transport type"

TransportError == "transport error"

\* The three shapes of state connect() writes.
ConnectingState(cfg) ==
  [config |-> cfg, status |-> "connecting", error |-> None,
   tools |-> None, prompts |-> None, resources |-> None]

ConnectedState(cfg, got) ==
  [config |-> cfg, status |-> "connected", error |-> None,
   tools |-> Some(got["tools"]), prompts |-> Some(got["prompts"]),
   resources |-> Some(got["resources"])]

ErrorState(cfg, msg) ==
  [config |-> cfg, status |-> "error", error |-> Some(msg),
   tools |-> None, prompts |-> None, resources |-> None]

\* Mutant: the spread alone, the capability lists are not cleared.
DisconnectedState_KeepsLists(cur) == [cur EXCEPT !.status = "disconnected"]

\* disconnect(): { ...currentState, status: "disconnected", tools: undefined,
\* prompts: undefined, resources: undefined }
DisconnectedState(cur) ==
  [cur EXCEPT !.status = "disconnected", !.tools = None,
              !.prompts = None, !.resources = None]

\* ------------------------------------------------------------ Map helpers
Has(m, k) == k \in DOMAIN m
MapSet(m, k, v) == [x \in DOMAIN m \cup {k} |-> IF x = k THEN v ELSE m[x]]
MapDelete(m, k) == [x \in DOMAIN m \ {k} |-> m[x]]

updateState(st, i, s) == MapSet(st, i, s)

\* --------------------------------------------------------------- reads
getState(i) == IF Has(states, i) THEN Some(states[i]) ELSE None

getStatus(i) == IF Has(states, i) THEN states[i].status ELSE "disconnected"

isConnected(i) == Has(clients, i) /\ Has(states, i) /\ states[i].status = "connected"

getConnectedIds ==
  { i \in DOMAIN clients : Has(states, i) /\ states[i].status = "connected" }

\* The status an id has in table st (no entry counts as disconnected).
StatusIn(st, i) == IF Has(st, i) THEN st[i].status ELSE "disconnected"

\* ------------------------------------------------------------ call records
Idle ==
  [op |-> "none", pc |-> "idle", id |-> "", config |-> NoConfig, h |-> 0,
   nested |-> FALSE, pending |-> {}, failed |-> {},
   got |-> [k \in Kinds |-> << >>], snap |-> None]

\* What a step did: its kind, the method it belongs to, the server id, the
\* transport of the config passed (connect only), the state returned (connect
\* only) and the statuses the id went through: the status before the step
\* followed by every status the step wrote.
Event(kind, op, i, arg, ret, path) ==
  [kind |-> kind, op |-> op, id |-> i, arg |-> arg, ret |-> ret, path |-> path]

\* The registry of a process that has served no request yet.
RegistryInit ==
  /\ clients = << >>
  /\ states = << >>
  /\ chan = << >>
  /\ calls = [c \in Callers |-> Idle]
  /\ refreshes = 0
  /\ ev = Event("init", "none", "", "", None, << >>)

\* No chat request.
NoRun == [pc |-> "none"]

\* No tool identifier under way.
NoIdent == [pc |-> "none"]

\* The process and the browser context left out of account.
NoProc == [pc |-> "none"]
NoContext == [pc |-> "none"]
NoTwin == [pc |-> "none"]
NoPage == [pc |-> "none"]

Init ==
  /\ RegistryInit
  /\ run = NoRun
  /\ stream = << >>
  /\ ident = NoIdent
  /\ proc = NoProc
  /\ ctx = NoContext
  /\ twin = NoTwin
  /\ page = NoPage

\* ------------------------------------------------------------- connect()
\* Calls that have invoked, or are still to invoke, client.connect: the model
\* admits a new connect only while a channel index is left for it.
OpensPlanned ==
  Cardinality({ c \in Callers : calls[c].op = "connect" /\ calls[c].pc \in {"close", "resume", "open"} })

ChannelLeft == Len(chan) + OpensPlanned < MaxChannels

\* Lines 67-72: the id has a handle and its state says connected.
AlreadyConnected(i) ==
  Has(clients, i) /\ Has(states, i) /\ states[i].status = "connected"

\* Mutant: the transport switch does not validate; every config goes on to
\* client.connect.
ConnectBody_NoValidation(c, cfg) ==
  /\ UNCHANGED <<clients, chan>>
  /\ states' = updateState(states, cfg.id, ConnectingState(cfg))
  /\ calls' = [calls EXCEPT ![c] =
                 [Idle EXCEPT !.op = "connect", !.pc = "open",
                              !.id = cfg.id, !.config = cfg]]
  /\ ev' = Event("connect_opening", "connect", cfg.id, cfg.transport, None,
                 <<StatusIn(states, cfg.id), StatusIn(states', cfg.id)>>)

\* Lines 78-123, one synchronous stretch: write the connecting state, build the
\* transport (which validates the config), invoke client.connect and suspend.
\* A validation error is caught at once: the error state is written and the
\* call rejects.
ConnectBody(c, cfg) ==
  LET old == StatusIn(states, cfg.id)
      msg == ValidationError(cfg)
      s1  == updateState(states, cfg.id, ConnectingState(cfg))
  IN  /\ UNCHANGED <<clients, chan>>
      /\ IF msg # ""
         THEN /\ states' = updateState(s1, cfg.id, ErrorState(cfg, msg))
              /\ calls' = [calls EXCEPT ![c] = Idle]
              /\ ev' = Event("connect_throw", "connect", cfg.id, cfg.transport, None,
                             <<old, StatusIn(s1, cfg.id), StatusIn(states', cfg.id)>>)
         ELSE /\ states' = s1
              /\ calls' = [calls EXCEPT ![c] =
                             [Idle EXCEPT !.op = "connect", !.pc = "open",
                                          !.id = cfg.id, !.config = cfg]]
              /\ ev' = Event("connect_opening", "connect", cfg.id, cfg.transport, None,
                             <<old, StatusIn(states', cfg.id)>>)

\* Lines 164-169 of disconnect(), entered with a handle in the table: take the
\* handle and suspend in client.close().
AwaitClose(c, op, i, cfg, nested) ==
  /\ calls' = [calls EXCEPT ![c] =
                 [Idle EXCEPT !.op = op, !.pc = "close", !.id = i,
                              !.config = cfg, !.h = clients[i], !.nested = nested]]
  /\ ev' = Event("await_close", op, i, cfg.transport, None, <<StatusIn(states, i)>>)
  /\ UNCHANGED <<clients, states, chan>>

\* Mutant: the stored status is not looked at, an id with a handle is always
\* disconnected and connected again.
ConnectEntry_NoStatusCheck(c, cfg) ==
  /\ UNCHANGED refreshes
  /\ calls[c].pc = "idle"
  /\ ChannelLeft
  /\ IF Has(clients, cfg.id)
     THEN AwaitClose(c, "connect", cfg.id, cfg, TRUE)
     ELSE ConnectBody(c, cfg)

\* Mutant: the handle table is not looked at, every connect starts afresh.
ConnectEntry_NoHandleCheck(c, cfg) ==
  /\ UNCHANGED refreshes
  /\ calls[c].pc = "idle"
  /\ ChannelLeft
  /\ ConnectBody(c, cfg)

\* connect(config), from the call to its first await (or to its return).
ConnectEntry(c, cfg) ==
  /\ UNCHANGED refreshes
  /\ calls[c].pc = "idle"
  /\ AlreadyConnected(cfg.id) \/ ChannelLeft
  /\ IF Has(clients, cfg.id)
     THEN IF AlreadyConnected(cfg.id)
          THEN /\ ev' = Event("connect_existing", "connect", cfg.id, cfg.transport,
                              Some(states[cfg.id]), <<StatusIn(states, cfg.id)>>)
               /\ UNCHANGED <<clients, states, chan, calls>>
          ELSE AwaitClose(c, "connect", cfg.id, cfg, TRUE)
     ELSE ConnectBody(c, cfg)

\* connect() resumes after `await this.disconnect(config.id)`.
ConnectResume(c) ==
  /\ UNCHANGED refreshes
  /\ calls[c].pc = "resume"
  /\ ConnectBody(c, calls[c].config)

\* `await client.connect(transport)` settles.  Opened: line 126 stores the
\* handle and lines 129-133 start the three listings.  Failed: the catch
\* block writes the error state and the call rejects.
OpenSettle(c, ok) ==
  /\ UNCHANGED refreshes
  /\ calls[c].pc = "open"
  /\ LET i == calls[c].id
         cfg == calls[c].config
     IN IF ok
        THEN /\ chan' = Append(chan, [id |-> i, open |-> TRUE])
             /\ clients' = MapSet(clients, i, Len(chan) + 1)
             /\ calls' = [calls EXCEPT ![c].pc = "fetch", ![c].h = Len(chan) + 1,
                                       ![c].pending = Kinds]
             /\ ev' = Event("connect_opened", "connect", i, cfg.transport, None,
                            <<StatusIn(states, i)>>)
             /\ UNCHANGED states
        ELSE /\ states' = updateState(states, i, ErrorState(cfg, TransportError))
             /\ calls' = [calls EXCEPT ![c] = Idle]
             /\ ev' = Event("connect_throw", "connect", i, cfg.transport, None,
                            <<StatusIn(states, i), StatusIn(states', i)>>)
             /\ UNCHANGED <<clients, chan>>

\* fetchTools / fetchPrompts / fetchResources: the listing of one kind
\* settles; a failure is caught and yields the empty list.
fetchResult(i, k, ok) == IF ok THEN ServerList(i, k) ELSE << >>

\* Mutant: the listing has no catch, its failure rejects Promise.all and the
\* catch block of connect() writes the error state.
FetchSettle_NoCatch(c, k, ok) ==
  /\ UNCHANGED refreshes
  /\ calls[c].pc = "fetch"
  /\ k \in calls[c].pending
  /\ ok => chan[calls[c].h].open
  /\ IF ok
     THEN /\ calls' = [calls EXCEPT ![c].pending = @ \ {k},
                                    ![c].got[k] = fetchResult(calls[c].id, k, ok)]
          /\ ev' = Event("fetched", calls[c].op, calls[c].id, "", None,
                         <<StatusIn(states, calls[c].id)>>)
          /\ UNCHANGED states
     ELSE /\ states' = updateState(states, calls[c].id,
                                   ErrorState(calls[c].config, TransportError))
          /\ calls' = [calls EXCEPT ![c] = Idle]
          /\ ev' = Event("connect_throw", calls[c].op, calls[c].id, "", None,
                         <<StatusIn(states, calls[c].id), StatusIn(states', calls[c].id)>>)
  /\ UNCHANGED <<clients, chan>>

FetchSettle(c, k, ok) ==
  /\ UNCHANGED refreshes
  /\ calls[c].pc = "fetch"
  /\ k \in calls[c].pending
  /\ ok => chan[calls[c].h].open
  /\ calls' = [calls EXCEPT ![c].pending = @ \ {k},
                            ![c].failed = IF ok THEN @ ELSE @ \cup {k},
                            ![c].got[k] = fetchResult(calls[c].id, k, ok)]
  /\ ev' = Event("fetched", calls[c].op, calls[c].id, "", None,
                 <<StatusIn(states, calls[c].id)>>)
  /\ UNCHANGED <<clients, states, chan>>

\* Promise.all has resolved: lines 136-146 write the connected state.
ConnectFinish(c) ==
  /\ UNCHANGED refreshes
  /\ calls[c].pc = "fetch"
  /\ calls[c].op = "connect"
  /\ calls[c].pending = {}
  /\ LET i == calls[c].id
         s == ConnectedState(calls[c].config, calls[c].got)
     IN /\ states' = updateState(states, i, s)
        /\ ev' = Event("connect_return", "connect", i, calls[c].config.transport,
                       Some(s), <<StatusIn(states, i), StatusIn(states', i)>>)
  /\ calls' = [calls EXCEPT ![c] = Idle]
  /\ UNCHANGED <<clients, chan>>

\* ---------------------------------------------------------- disconnect()
\* Mutant: disconnect() drops the state entry together with the handle.
DisconnectTail_Removes(st, i) == MapDelete(st, i)

\* Lines 176-185: normalise the state of an id that has one.
DisconnectTail(st, i) ==
  IF Has(st, i) THEN updateState(st, i, DisconnectedState(st[i])) ELSE st

DisconnectEntry(c, i) ==
  /\ UNCHANGED refreshes
  /\ calls[c].pc = "idle"
  /\ IF Has(clients, i)
     THEN AwaitClose(c, "disconnect", i, NoConfig, FALSE)
     ELSE /\ states' = DisconnectTail(states, i)
          /\ ev' = Event("disconnect_return", "disconnect", i, "", None,
                         <<StatusIn(states, i), StatusIn(states', i)>>)
          /\ UNCHANGED <<clients, chan, calls>>

\* Mutant: no try/catch around client.close(); when close throws, disconnect()
\* throws before lines 173-185 run.
CloseSettle_Propagates(c, ok) ==
  /\ UNCHANGED refreshes
  /\ calls[c].pc = "close"
  /\ LET i == calls[c].id
     IN IF ok
        THEN /\ chan' = [chan EXCEPT ![calls[c].h].open = FALSE]
             /\ clients' = MapDelete(clients, i)
             /\ states' = DisconnectTail(states, i)
             /\ ev' = Event("disconnect_return", calls[c].op, i, "", None,
                            <<StatusIn(states, i), StatusIn(states', i)>>)
             /\ calls' = [calls EXCEPT ![c] =
                            IF calls[c].nested THEN [@ EXCEPT !.pc = "resume"] ELSE Idle]
        ELSE /\ ev' = Event("disconnect_throw", calls[c].op, i, "", None,
                            <<StatusIn(states, i), StatusIn(states, i)>>)
             /\ calls' = [calls EXCEPT ![c] = Idle]
             /\ UNCHANGED <<clients, states, chan>>

\* client.close() settles; when it throws the error is logged and the channel
\* is left as it was.  Then lines 173-185 run and disconnect() returns.
CloseSettle(c, ok) ==
  /\ UNCHANGED refreshes
  /\ calls[c].pc = "close"
  /\ LET i == calls[c].id
     IN /\ chan' = IF ok THEN [chan EXCEPT ![calls[c].h].open = FALSE] ELSE chan
        /\ clients' = MapDelete(clients, i)
        /\ states' = DisconnectTail(states, i)
        /\ ev' = Event("disconnect_return", calls[c].op, i, "", None,
                       <<StatusIn(states, i), StatusIn(states', i)>>)
        /\ calls' = [calls EXCEPT ![c] =
                       IF calls[c].nested THEN [@ EXCEPT !.pc = "resume"] ELSE Idle]

\* ------------------------------------ callTool / getPrompt / readResource
\* Mutant: a call on an id without a handle normalises the id's state before
\* it throws.
RequestEntry_Normalises(c, op, i) ==
  /\ UNCHANGED refreshes
  /\ calls[c].pc = "idle"
  /\ IF Has(clients, i)
     THEN /\ calls' = [calls EXCEPT ![c] =
                         [Idle EXCEPT !.op = "request", !.pc = "request",
                                      !.id = i, !.h = clients[i]]]
          /\ ev' = Event("request_sent", op, i, "", None, <<StatusIn(states, i)>>)
          /\ UNCHANGED states
     ELSE /\ ev' = Event("not_connected", op, i, "", None, <<StatusIn(states, i)>>)
          /\ states' = DisconnectTail(states, i)
          /\ UNCHANGED calls
  /\ UNCHANGED <<clients, chan>>

\* Lines 198-257: without a handle for the id the call throws "Server <id> is
\* not connected"; with one it sends the request on the handle and suspends.
RequestEntry(c, op, i) ==
  /\ UNCHANGED refreshes
  /\ calls[c].pc = "idle"
  /\ IF Has(clients, i)
     THEN /\ calls' = [calls EXCEPT ![c] =
                         [Idle EXCEPT !.op = "request", !.pc = "request",
                                      !.id = i, !.h = clients[i]]]
          /\ ev' = Event("request_sent", op, i, "", None, <<StatusIn(states, i)>>)
     ELSE /\ ev' = Event("not_connected", op, i, "", None, <<StatusIn(states, i)>>)
          /\ UNCHANGED calls
  /\ UNCHANGED <<clients, states, chan>>

RequestSettle(c, ok) ==
  /\ UNCHANGED refreshes
  /\ calls[c].pc = "request"
  /\ ok => chan[calls[c].h].open
  /\ calls' = [calls EXCEPT ![c] = Idle]
  /\ ev' = Event(IF ok THEN "request_return" ELSE "request_throw", calls[c].op,
                 calls[c].id, "", None, <<StatusIn(states, calls[c].id)>>)
  /\ UNCHANGED <<clients, states, chan>>

\* ------------------------------------------------------- specification
Next ==
  \E c \in Callers :
    \/ \E cfg \in Configs : ConnectEntry(c, cfg) /\ Apart
    \/ ConnectResume(c) /\ Apart
    \/ \E ok \in BOOLEAN : OpenSettle(c, ok) /\ Apart
    \/ \E k \in Kinds, ok \in BOOLEAN : FetchSettle(c, k, ok) /\ Apart
    \/ ConnectFinish(c) /\ Apart
    \/ \E i \in Ids : DisconnectEntry(c, i) /\ Apart
    \/ \E ok \in BOOLEAN : CloseSettle(c, ok) /\ Apart
    \/ \E op \in RequestOps, i \in Ids : RequestEntry(c, op, i) /\ Apart
    \/ \E ok \in BOOLEAN : RequestSettle(c, ok) /\ Apart

Spec == Init /\ [][Next]_vars

\* The registry with its calls made one after another: a step is taken only
\* when every call in progress is the one taking it, so a call starts only
\* when no call is in progress.
Sequential == \A d \in Callers : calls[d].pc # "idle" => calls'[d] # calls[d]

SeqNext == Next /\ Sequential

SeqSpec == Init /\ [][SeqNext]_vars

\* The read methods, lines 262-295.  getAllStates and getConnectedIds take no
\* id; the others are asked about an id of the registry or about one no
\* connect has ever named.
ReadOps == {"getState", "getAllStates", "isConnected", "getStatus", "getConnectedIds"}

ReadIds == Ids \cup {"s0"}

getAllStates == { states[i] : i \in DOMAIN states }

ReadResult(op, i) ==
  CASE op = "getState" -> getState(i)
    [] op = "getAllStates" -> getAllStates
    [] op = "isConnected" -> isConnected(i)
    [] op = "getStatus" -> getStatus(i)
    [] op = "getConnectedIds" -> getConnectedIds

\* Mutant: a read of an id without an entry registers it as disconnected.
Read_Registers(op, i) ==
  /\ op \in {"getAllStates", "getConnectedIds"} <=> i = ""
  /\ ev' = Event("read", op, i, "", Some(ReadResult(op, i)), << >>)
  /\ states' = IF i = "" \/ Has(states, i) THEN states
                ELSE updateState(states, i, DisconnectedState(ConnectingState(NoConfig)))
  /\ UNCHANGED <<clients, chan, calls, refreshes>>

\* One read: synchronous, it returns at once.
Read(op, i) ==
  /\ op \in {"getAllStates", "getConnectedIds"} <=> i = ""
  /\ ev' = Event("read", op, i, "", Some(ReadResult(op, i)), << >>)
  /\ UNCHANGED <<clients, states, chan, calls, refreshes>>

\* Calls made one after another, with reads at any moment, between the steps
\* of a call in progress included.
ReadNext ==
  \/ SeqNext
  \/ \E op \in ReadOps, i \in ReadIds \cup {""} : Read(op, i) /\ Apart

ReadSpec == Init /\ [][ReadNext]_vars

\* The registry called with every shape of config the transport switch of
\* connect() tells apart: each transport with and without the parameter the
\* switch asks of it, and a transport the switch does not know.
AllConfigsOf(i) ==
  { [id |-> i, transport |-> "stdio", command |-> cm, url |-> FALSE] : cm \in BOOLEAN }
  \cup { [id |-> i, transport |-> t, command |-> FALSE, url |-> u] :
           t \in {"streamable-http", "sse"}, u \in BOOLEAN }
  \cup { [id |-> i, transport |-> "websocket", command |-> TRUE, url |-> TRUE] }

AllConfigs == UNION { AllConfigsOf(i) : i \in Ids }

ConfigNext ==
  \E c \in Callers :
    \/ \E cfg \in AllConfigs : ConnectEntry(c, cfg) /\ Apart
    \/ ConnectResume(c) /\ Apart
    \/ \E ok \in BOOLEAN : OpenSettle(c, ok) /\ Apart
    \/ \E k \in Kinds, ok \in BOOLEAN : FetchSettle(c, k, ok) /\ Apart
    \/ ConnectFinish(c) /\ Apart
    \/ \E i \in Ids : DisconnectEntry(c, i) /\ Apart
    \/ \E ok \in BOOLEAN : CloseSettle(c, ok) /\ Apart

ConfigSpec == Init /\ [][ConfigNext]_vars

\* ------------------------------------------------------ McpClientManager
\* The singleton-pattern registry of src/lib/mcp/client-manager.ts.  Its
\* disconnect, callTool, getPrompt, readResource, the body of its connect and
\* its capability fetch are the same code as GlobalMcpClientManager's; its
\* connect entry and isConnected differ, and it has refreshCapabilities.

\* connect(config): an id with a handle is disconnected first, whatever its
\* status.
McConnectEntry(c, cfg) ==
  /\ UNCHANGED refreshes
  /\ calls[c].pc = "idle"
  /\ ChannelLeft
  /\ IF Has(clients, cfg.id)
     THEN AwaitClose(c, "connect", cfg.id, cfg, TRUE)
     ELSE ConnectBody(c, cfg)

McIsConnected(i) == Has(clients, i)

\* refreshCapabilities(serverId), to its await: it needs a handle and a
\* state, keeps the state it read and starts the three listings.
RefreshEntry(c, i) ==
  /\ calls[c].pc = "idle"
  /\ refreshes < MaxRefresh
  /\ refreshes' = refreshes + 1
  /\ IF Has(clients, i) /\ Has(states, i)
     THEN /\ calls' = [calls EXCEPT ![c] =
                         [Idle EXCEPT !.op = "refresh", !.pc = "fetch", !.id = i,
                                      !.h = clients[i], !.pending = Kinds,
                                      !.snap = Some(states[i])]]
          /\ ev' = Event("refresh_sent", "refresh", i, "", None, <<StatusIn(states, i)>>)
     ELSE /\ ev' = Event("not_connected", "refresh", i, "", None, <<StatusIn(states, i)>>)
          /\ UNCHANGED calls
  /\ UNCHANGED <<clients, states, chan>>

\* { ...state, tools, prompts, resources }
RefreshedState(st, got) ==
  [st EXCEPT !.tools = Some(got["tools"]), !.prompts = Some(got["prompts"]),
             !.resources = Some(got["resources"])]

\* Promise.all has resolved: the lists are written onto the state read at the
\* start of the call.
RefreshFinish(c) ==
  /\ UNCHANGED refreshes
  /\ calls[c].pc = "fetch"
  /\ calls[c].op = "refresh"
  /\ calls[c].pending = {}
  /\ LET i == calls[c].id
         s == RefreshedState(calls[c].snap[1], calls[c].got)
     IN /\ states' = updateState(states, i, s)
        /\ ev' = Event("refresh_return", "refresh", i, "", Some(s),
                       <<StatusIn(states, i), StatusIn(states', i)>>)
  /\ calls' = [calls EXCEPT ![c] = Idle]
  /\ UNCHANGED <<clients, chan>>

McNext ==
  \E c \in Callers :
    \/ \E cfg \in Configs : McConnectEntry(c, cfg) /\ Apart
    \/ ConnectResume(c) /\ Apart
    \/ \E ok \in BOOLEAN : OpenSettle(c, ok) /\ Apart
    \/ \E k \in Kinds, ok \in BOOLEAN : FetchSettle(c, k, ok) /\ Apart
    \/ ConnectFinish(c) /\ Apart
    \/ \E i \in Ids : DisconnectEntry(c, i) /\ Apart
    \/ \E ok \in BOOLEAN : CloseSettle(c, ok) /\ Apart
    \/ \E i \in Ids : RefreshEntry(c, i) /\ Apart
    \/ RefreshFinish(c) /\ Apart

McSpec == Init /\ [][McNext]_vars

\* ------------------------------------------------- qualified tool names
\* src/app/api/chat/route.ts declares the tool `name` of server `serverId` to
\* the provider as serverId + "__" + name and takes the identifier apart again
\* when the provider asks for the tool.  Strings are sequences of characters.
MaxIdLen == 2
MaxNameLen == 3

Alphabet == {"a", "_"}
Separator == <<"_", "_">>

Strings(n) == UNION { [1..k -> Alphabet] : k \in 0..n }

\* String.prototype.indexOf: the first position at which sep occurs in s,
\* 0 when there is none.
indexOf(s, sep) ==
  LET at == { p \in 1..(Len(s) - Len(sep) + 1) :
                SubSeq(s, p, p + Len(sep) - 1) = sep }
  IN IF at = {} THEN 0 ELSE CHOOSE p \in at : \A r \in at : p <= r

\* String.prototype.split with a separator string: the pieces between the
\* occurrences of sep, found from left to right without overlap.
RECURSIVE split(_, _)
split(s, sep) ==
  LET p == indexOf(s, sep)
  IN IF p = 0 THEN <<s>>
     ELSE <<SubSeq(s, 1, p - 1)>> \o split(SubSeq(s, p + Len(sep), Len(s)), sep)

\* Array.prototype.join.
RECURSIVE join(_, _)
join(parts, sep) ==
  IF Len(parts) = 0 THEN << >>
  ELSE IF Len(parts) = 1 THEN parts[1]
  ELSE parts[1] \o sep \o join(Tail(parts), sep)

\* Array.prototype.slice(1).
slice1(parts) == IF Len(parts) = 0 THEN << >> ELSE Tail(parts)

\* convertToClaudeTool, line 97: `${tool.serverId}__${tool.name}`.
toolIdOf(serverId, name) == serverId \o Separator \o name

\* Mutant: the tool name is the last piece, as the display name is.
ParseToolId_LastPiece(toolId) ==
  LET parts == split(toolId, Separator)
  IN [valid |-> Len(parts) >= 2, serverId |-> parts[1],
      toolName |-> parts[Len(parts)]]

\* executeMcpTool, lines 118-124: fewer than two pieces is an invalid
\* identifier; otherwise the first piece is the server id and the others,
\* joined again, are the tool name.
ParseToolId(toolId) ==
  LET parts == split(toolId, Separator)
  IN [valid |-> Len(parts) >= 2, serverId |-> parts[1],
      toolName |-> join(slice1(parts), Separator)]

IdentInit ==
  /\ RegistryInit
  /\ run = NoRun
  /\ stream = << >>
  /\ ident \in { [pc |-> "tool", serverId |-> s, name |-> n] :
                   s \in Strings(MaxIdLen), n \in Strings(MaxNameLen) }
  /\ proc = NoProc
  /\ ctx = NoContext
  /\ twin = NoTwin
  /\ page = NoPage

\* The tool is declared to the provider under its qualified name.
Declare ==
  /\ ident.pc = "tool"
  /\ ident' = [pc |-> "declared", serverId |-> ident.serverId, name |-> ident.name,
               toolId |-> toolIdOf(ident.serverId, ident.name)]
  /\ UNCHANGED <<clients, states, chan, calls, refreshes, ev, run, stream, proc, ctx, twin, page>>

\* The provider asks for the tool by that name and executeMcpTool parses it.
Resolve ==
  /\ ident.pc = "declared"
  /\ ident' = [pc |-> "resolved", serverId |-> ident.serverId, name |-> ident.name,
               toolId |-> ident.toolId, parsed |-> ParseToolId(ident.toolId)]
  /\ UNCHANGED <<clients, states, chan, calls, refreshes, ev, run, stream, proc, ctx, twin, page>>

IdentNext == Declare \/ Resolve

IdentSpec == IdentInit /\ [][IdentNext]_vars

\* --------------------------------------------------------- POST /api/chat
\* One chat request served by src/app/api/chat/route.ts on the registry above.
\* The request is caller "r1" of the registry; meanwhile another request,
\* caller "r2", may disconnect servers.
MaxTurns == 2
MaxServers == 2

Runner == "r1"
Other == "r2"

ChatIds == {"s1", "s2"}

\* The characters of a server id.
Chars(i) ==
  CASE i = "s1" -> <<"s", "1">>
    [] i = "s2" -> <<"s", "2">>
    [] OTHER -> << >>

\* The key under which a string read from a tool identifier is looked up in the
\* registry's tables: the id spelled that way, "" (no entry) when there is none.
KeyOf(s) ==
  IF \E i \in ChatIds : Chars(i) = s
  THEN CHOOSE i \in ChatIds : Chars(i) = s
  ELSE ""

\* The names of the tools each server lists.
ServerTools(i) ==
  CASE i = "s1" -> << <<"t">>, <<"a", "_", "_", "b">> >>
    [] i = "s2" -> << <<"t">> >>
    [] OTHER -> << >>

\* config.name of the configs of an id.
ConfigName(i) ==
  CASE i = "s1" -> "Server One"
    [] i = "s2" -> "Server Two"
    [] OTHER -> ""

\* A JavaScript value of which Array.isArray is asked: an array of strings, or
\* a string (spelled as its characters).
JsArray(items) == [isArray |-> TRUE, items |-> items]
JsString(chars) == [isArray |-> FALSE, items |-> chars]

\* A string put together from pieces; the empty string has none.
EmptyString == << >>
Truthy(o) == Present(o) /\ o[1] # EmptyString

\* `Tool from ${tool.serverName}`  (line 103).
ToolFrom(serverName) == <<"Tool from ", serverName>>

\* The description and the inputSchema of the p-th tool a server lists:
\* s1's first tool has a description and a list of required fields, its
\* second has no description and a `required` that is not an array; s2's
\* tool has the empty description and no schema.
ToolDescription(i, p) ==
  CASE i = "s1" /\ p = 1 -> Some(<<"d">>)
    [] i = "s2" /\ p = 1 -> Some(EmptyString)
    [] OTHER -> None

ToolSchema(i, p) ==
  CASE i = "s1" /\ p = 1 -> Some([required |-> Some(JsArray(<<"x">>))])
    [] i = "s1" /\ p = 2 -> Some([required |-> Some(JsString(<<"x">>))])
    [] OTHER -> None

\* mcpServers of the request body: a valid stdio config and an sse config
\* without url for each id.
ChatConfigs ==
  { cfg \in ConfigsOf("s1") \cup ConfigsOf("s2") : cfg.transport # "streamable-http" }

ServerLists == UNION { [1..n -> ChatConfigs] : n \in 0..MaxServers }

\* The lists that name no server or s1 alone.
ShortLists == { l \in ServerLists : Len(l) <= 1 /\ \A p \in 1..Len(l) : l[p].id = "s1" }

\* The request body and the environment of the process: provider, whether the
\* provider's API key is configured, whether messages is non-empty, mcpEnabled
\* and mcpServers (one of lists).
Requests(lists) ==
  [provider : {"claude", "gemini"}, key : BOOLEAN, messages : BOOLEAN,
   mcpEnabled : BOOLEAN, mcpServers : lists]

\* ----------------------------------------------------------- StreamEvent
TextEvent(c) ==
  [type |-> "text", toolName |-> << >>, serverId |-> << >>, content |-> <<c>>]

ToolCallEvent(n, s) ==
  [type |-> "tool_call", toolName |-> n, serverId |-> s, content |-> << >>]

ToolResultEvent(n, s, r) ==
  [type |-> "tool_result", toolName |-> n, serverId |-> s, content |-> r]

ErrorEvent(m) ==
  [type |-> "error", toolName |-> << >>, serverId |-> << >>, content |-> <<m>>]

\* Messages of the errors that reach the catch blocks.
ProviderError == "provider call failed"
InvalidToolId == "Invalid tool ID format"
NotConnected == "Server is not connected"
RemoteError == "remote tool error"

\* executeMcpTool's return values: the joined text of the tool's content, or
\* `Error executing tool: ${errorMessage}`.
ToolOutput == <<"tool output">>
ErrorResult(msg) == <<"Error executing tool: ", msg>>

Unknown == <<"u", "n", "k", "n", "o", "w", "n">>
Auto == <<"a", "u", "t", "o">>

\* ------------------------------------------------------ provider answers
\* A content block: its type, the text of a text block, the name and the id
\* of a tool_use block.  The provider gives every tool_use block of an answer
\* an id of its own: Numbered uses the block's position.
TextBlock(c) == [type |-> "text", text |-> c, name |-> << >>, id |-> 0]
ToolUseBlock(n) == [type |-> "tool_use", text |-> "", name |-> n, id |-> 0]

Numbered(content) ==
  [p \in 1..Len(content) |->
     IF content[p].type = "tool_use" THEN [content[p] EXCEPT !.id = p] ELSE content[p]]

\* Tool names a Claude answer may ask for: two declared tools of s1 (one with
\* the separator in its own name), a tool of s2, and a name without separator.
AskT == toolIdOf(Chars("s1"), <<"t">>)
AskAB == toolIdOf(Chars("s1"), <<"a", "_", "_", "b">>)
AskS2 == toolIdOf(Chars("s2"), <<"t">>)
AskBare == <<"t">>

\* Sample answers of anthropic.messages.create: stop_reason and content.
ClaudeAnswers ==
  { [stop |-> "end_turn", content |-> <<TextBlock(""), TextBlock("done")>>],
    [stop |-> "tool_use", content |-> Numbered(<<TextBlock("hi"), ToolUseBlock(AskT)>>)],
    [stop |-> "tool_use", content |-> Numbered(<<ToolUseBlock(AskAB), ToolUseBlock(AskT)>>)],
    [stop |-> "tool_use",
     content |-> Numbered(<<ToolUseBlock(AskS2), TextBlock("mid"), ToolUseBlock(AskT)>>)],
    [stop |-> "tool_use", content |-> Numbered(<<ToolUseBlock(AskBare), ToolUseBlock(AskT)>>)] }

\* Sample answers of ai.models.generateContent: response.text and
\* response.functionCalls (the names asked for).
GeminiAnswers ==
  [text : {"", "done"},
   functionCalls : { << >>, << <<"t">> >>, << <<"t">>, <<"a", "_", "_", "b">> >> }]

\* ------------------------------------------------------------ sequences
RECURSIVE Flatten(_)
Flatten(ss) == IF Len(ss) = 0 THEN << >> ELSE Head(ss) \o Flatten(Tail(ss))

IsText(b) == b.type = "text" /\ b.text # ""
IsToolUse(b) == b.type = "tool_use"

\* Lines 286-288.
toolUseBlocks(content) == SelectSeq(content, IsToolUse)

\* Lines 291-296 and 355-360: one text event per non-empty text block.
TextEvents(content) ==
  LET texts == SelectSeq(content, IsText)
  IN [p \in 1..Len(texts) |-> TextEvent(texts[p].text)]

\* Lines 303-307: what the tool_call and tool_result events show.
displayToolName(name) ==
  LET toolNameParts == split(name, Separator)
  IN IF Len(toolNameParts) > 1 THEN toolNameParts[Len(toolNameParts)] ELSE name

displayServerId(name) ==
  LET toolNameParts == split(name, Separator)
  IN IF Len(toolNameParts) > 1 THEN toolNameParts[1] ELSE Unknown

\* ------------------------------------------------------------- the run
\* The request and the locals of its handler: where it stands (pc), the HTTP
\* response POST has returned, the position k in mcpServers, connectedIds, the
\* tool names given to the provider, the content of the tool_use answer being
\* worked on, the position j among its tool calls, toolResults, and three
\* histories: the length of the stream when that answer arrived (base), the
\* number of tool_use answers so far (turns) and every tool name the provider
\* has asked for (asked).  messages is the message list of the latest
\* provider call; done is a fourth history, the tool turns completed so far:
\* the content of each tool_use answer and the results of its tool calls, in
\* call order.
\* A fifth history: the server id and tool name of the latest
\* manager.callTool(serverId, toolName, args) of executeMcpTool (line 127).
NoCall == [serverId |-> << >>, toolName |-> << >>]
Call(p) == [serverId |-> p.serverId, toolName |-> p.toolName]

NewRun(req) ==
  [pc |-> "received", req |-> req, response |-> "none", k |-> 1,
   connectedIds |-> << >>, tools |-> << >>, content |-> << >>, j |-> 1,
   toolResults |-> << >>, base |-> 0, turns |-> 0, asked |-> << >>,
   messages |-> << >>, done |-> << >>, called |-> NoCall,
   declared |-> << >>]

\* Lines 260-263: the messages of the request in the provider's format (the
\* request's text as one text block).
claudeMessages == << [role |-> "user", content |-> <<TextBlock("question")>>] >>

\* Lines 332-336: the entries pushed on toolResults, one per tool call of the
\* answer, each with the id of its tool_use block.
ToolResultBlocks(content, results) ==
  [p \in 1..Len(results) |->
     [type |-> "tool_result", tool_use_id |-> toolUseBlocks(content)[p].id,
      content |-> results[p]]]

AssistantTurn(content) == [role |-> "assistant", content |-> content]
UserTurn(content, results) ==
  [role |-> "user", content |-> ToolResultBlocks(content, results)]

ChatEvent(kind) == Event(kind, "chat", "", "", None, << >>)

\* A registry in which s1 was connected by an earlier request.
WarmRegistry ==
  /\ chan = << [id |-> "s1", open |-> TRUE] >>
  /\ clients = [i \in {"s1"} |-> 1]
  /\ states = [i \in {"s1"} |->
                 ConnectedState([id |-> "s1", transport |-> "stdio",
                                 command |-> TRUE, url |-> FALSE],
                                [k \in Kinds |-> ServerList("s1", k)])]

FreshRegistry == clients = << >> /\ states = << >> /\ chan = << >>

\* A request arrives at a process whose registry is fresh or warm.
Arrival(lists) ==
  /\ FreshRegistry \/ WarmRegistry
  /\ calls = [c \in Callers |-> Idle]
  /\ refreshes = 0
  /\ ev = Event("init", "none", "", "", None, << >>)
  /\ run \in { NewRun(req) : req \in Requests(lists) }
  /\ stream = << >>
  /\ ident = NoIdent
  /\ proc = NoProc
  /\ ctx = NoContext
  /\ twin = NoTwin
  /\ page = NoPage

ChatInit == Arrival(ShortLists)

\* Mutant: the handler does not look at mcpEnabled; any supplied config is
\* connected.
Post_IgnoresEnabled ==
  /\ run.pc = "received"
  /\ run' = IF ~run.req.messages
            THEN [run EXCEPT !.pc = "done", !.response = "json 400"]
            ELSE IF ~run.req.key
            THEN [run EXCEPT !.pc = "done", !.response = "json 500"]
            ELSE IF Len(run.req.mcpServers) > 0
            THEN [run EXCEPT !.pc = "ensure"]
            ELSE [run EXCEPT !.pc = "ready"]
  /\ ev' = ChatEvent("post")
  /\ UNCHANGED <<clients, states, chan, calls, refreshes, stream, ident, proc, ctx, twin, page>>

\* POST, lines 374-400, and the first lines of the handler it awaits: without
\* messages the answer is a JSON 400; without the provider's API key the
\* handler throws before it builds a stream and the catch of POST answers with
\* a JSON 500; otherwise the handler goes on to the MCP connections.
Post ==
  /\ run.pc = "received"
  /\ run' = IF ~run.req.messages
            THEN [run EXCEPT !.pc = "done", !.response = "json 400"]
            ELSE IF ~run.req.key
            THEN [run EXCEPT !.pc = "done", !.response = "json 500"]
            ELSE IF run.req.mcpEnabled /\ Len(run.req.mcpServers) > 0
            THEN [run EXCEPT !.pc = "ensure"]
            ELSE [run EXCEPT !.pc = "ready"]
  /\ ev' = ChatEvent("post")
  /\ UNCHANGED <<clients, states, chan, calls, refreshes, stream, ident, proc, ctx, twin, page>>

\* ------------------------------------------------- ensureMcpConnections
IsConnectedIn(cl, st, i) == Has(cl, i) /\ Has(st, i) /\ st[i].status = "connected"

\* The config at position k is done: its id is pushed or not, and the loop
\* goes to the next config or returns connectedIds.
Pushed(r, i, push) ==
  [r EXCEPT !.connectedIds = IF push THEN Append(@, i) ELSE @,
            !.k = @ + 1,
            !.pc = IF r.k = Len(r.req.mcpServers) THEN "ready" ELSE "ensure"]

\* Mutant: line 57 is dropped, the id of every connect that returned is pushed.
AfterConnect_NoRecheck(r, i) ==
  IF calls'[Runner].pc # "idle" THEN [r EXCEPT !.pc = "connecting"]
  ELSE IF ev'.kind = "connect_throw" THEN Pushed(r, i, FALSE)
  ELSE Pushed(r, i, TRUE)

\* After a step of the connect call awaited at line 54: still suspended, or
\* thrown (the catch of line 60 skips the config), or returned (line 57 asks
\* isConnected again).
AfterConnect(r, i) ==
  IF calls'[Runner].pc # "idle" THEN [r EXCEPT !.pc = "connecting"]
  ELSE IF ev'.kind = "connect_throw" THEN Pushed(r, i, FALSE)
  ELSE Pushed(r, i, IsConnectedIn(clients', states', i))

\* Lines 50-59 for the next config, up to the await of connect.
EnsureStep ==
  /\ run.pc = "ensure"
  /\ LET cfg == run.req.mcpServers[run.k]
     IN IF isConnected(cfg.id)
        THEN /\ run' = Pushed(run, cfg.id, TRUE)
             /\ ev' = ChatEvent("ensure_connected")
             /\ UNCHANGED <<clients, states, chan, calls, refreshes>>
        ELSE /\ ConnectEntry(Runner, cfg)
             /\ run' = AfterConnect(run, cfg.id)
  /\ UNCHANGED <<stream, ident, proc, ctx, twin, page>>

\* The awaited connect call goes on.  Of the three listings the model lets
\* the tool listing fail: the chat route reads no other.
EnsureAwait ==
  /\ run.pc = "connecting"
  /\ \/ ConnectResume(Runner)
     \/ \E ok \in BOOLEAN : OpenSettle(Runner, ok)
     \/ \E k \in Kinds, ok \in BOOLEAN : (ok \/ k = "tools") /\ FetchSettle(Runner, k, ok)
     \/ ConnectFinish(Runner)
     \/ \E ok \in BOOLEAN : CloseSettle(Runner, ok)
  /\ run' = AfterConnect(run, run.req.mcpServers[run.k].id)
  /\ UNCHANGED <<stream, ident, proc, ctx, twin, page>>

\* ---------------------------------------------------- tool declarations
\* getMcpToolsForClaude, lines 80-91, for one id.
toolsOfState(i) ==
  IF Has(states, i) /\ states[i].status = "connected" /\ Present(states[i].tools)
  THEN IF states[i].tools[1] = << >> THEN << >>
       ELSE [p \in 1..Len(ServerTools(states[i].config.id)) |->
               [serverId |-> states[i].config.id,
                serverName |-> ConfigName(states[i].config.id),
                name |-> ServerTools(states[i].config.id)[p],
                description |-> ToolDescription(states[i].config.id, p),
                inputSchema |-> ToolSchema(states[i].config.id, p)]]
  ELSE << >>

getMcpToolsForClaude(connectedIds) ==
  Flatten([p \in 1..Len(connectedIds) |-> toolsOfState(connectedIds[p])])

\* Array.isArray(schema.required) ? schema.required : [], with
\* schema = tool.inputSchema || {}  (lines 98-99).
requiredFields(tool) ==
  LET required == IF Present(tool.inputSchema) THEN tool.inputSchema[1].required
                  ELSE None
  IN IF Present(required) /\ required[1].isArray THEN required[1] ELSE JsArray(<< >>)

\* Mutant: schema.required is passed on as it is, [] when there is none.
convertToClaudeTool_RequiredAsIs(tool) ==
  [name |-> toolIdOf(Chars(tool.serverId), tool.name),
   description |-> IF Truthy(tool.description) THEN tool.description[1]
                   ELSE ToolFrom(tool.serverName),
   required |-> IF Present(tool.inputSchema) /\ Present(tool.inputSchema[1].required)
                THEN tool.inputSchema[1].required[1] ELSE JsArray(<< >>)]

\* convertToClaudeTool, lines 96-110.
convertToClaudeTool(tool) ==
  [name |-> toolIdOf(Chars(tool.serverId), tool.name),
   description |-> IF Truthy(tool.description) THEN tool.description[1]
                   ELSE ToolFrom(tool.serverName),
   required |-> requiredFields(tool)]

\* Lines 278-280: mcpTools.map(convertToClaudeTool).
claudeTools(connectedIds) ==
  LET mcpTools == getMcpToolsForClaude(connectedIds)
  IN [p \in 1..Len(mcpTools) |-> convertToClaudeTool(mcpTools[p])]

\* The names declared to Claude.
ClaudeTools(connectedIds) ==
  [p \in 1..Len(claudeTools(connectedIds)) |-> claudeTools(connectedIds)[p].name]

\* Lines 170-177: Gemini is given the tools of the ids that have a handle.
GeminiTools(connectedIds) ==
  LET withClient(i) == Has(clients, i)
      mcpClients == SelectSeq(connectedIds, withClient)
  IN Flatten([p \in 1..Len(mcpClients) |-> ServerTools(mcpClients[p])])

\* The handler builds the stream, whose start() makes the first provider
\* call, and POST returns the stream as the response.
Ready ==
  /\ run.pc = "ready"
  /\ run' = [run EXCEPT !.pc = "provider", !.response = "event stream",
                        !.tools = IF run.req.provider = "claude"
                                  THEN ClaudeTools(run.connectedIds)
                                  ELSE GeminiTools(run.connectedIds),
                        !.declared = IF run.req.provider = "claude"
                                     THEN claudeTools(run.connectedIds)
                                     ELSE << >>,
                        !.messages = claudeMessages]
  /\ ev' = ChatEvent("provider_called")
  /\ UNCHANGED <<clients, states, chan, calls, refreshes, stream, ident, proc, ctx, twin, page>>

\* ------------------------------------------------------------ the stream
\* controller.close().
Close(r) == [r EXCEPT !.pc = "closed"]

\* Mutant: the catch block answers with a stream that holds the error event
\* alone.
ProviderFail_DropsEvents ==
  /\ run.pc = "provider"
  /\ stream' = <<ErrorEvent(ProviderError)>>
  /\ run' = Close(run)
  /\ ev' = ChatEvent("provider_failed")
  /\ UNCHANGED <<clients, states, chan, calls, refreshes, ident, proc, ctx, twin, page>>

\* The provider call rejects: the catch block enqueues one error event and
\* closes the stream (lines 223-229 and 363-369).
ProviderFail ==
  /\ run.pc = "provider"
  /\ stream' = Append(stream, ErrorEvent(ProviderError))
  /\ run' = Close(run)
  /\ ev' = ChatEvent("provider_failed")
  /\ UNCHANGED <<clients, states, chan, calls, refreshes, ident, proc, ctx, twin, page>>

\* handleGeminiChat, lines 203-222.
GeminiAnswer(a) ==
  /\ run.pc = "provider"
  /\ run.req.provider = "gemini"
  /\ stream' = stream
                 \o (IF a.text # "" THEN <<TextEvent(a.text)>> ELSE << >>)
                 \o [p \in 1..Len(a.functionCalls) |->
                       ToolCallEvent(IF a.functionCalls[p] = << >> THEN Unknown
                                     ELSE a.functionCalls[p], Auto)]
  /\ run' = Close([run EXCEPT !.asked = @ \o a.functionCalls])
  /\ ev' = ChatEvent("provider_answered")
  /\ UNCHANGED <<clients, states, chan, calls, refreshes, ident, proc, ctx, twin, page>>

\* handleClaudeChat: an answer arrives.  With stop_reason tool_use the loop
\* body starts (lines 285-299): the text blocks are streamed and the tool
\* calls are taken up one by one; otherwise lines 354-362 stream the text and
\* close.  The model takes at most MaxTurns tool_use answers.
ClaudeAnswer(a) ==
  /\ run.pc = "provider"
  /\ run.req.provider = "claude"
  /\ a.stop = "tool_use" => run.turns < MaxTurns
  /\ stream' = stream \o TextEvents(a.content)
  /\ run' = IF a.stop = "tool_use"
            THEN [run EXCEPT !.pc = "tools", !.content = a.content, !.j = 1,
                             !.toolResults = << >>, !.base = Len(stream),
                             !.turns = @ + 1,
                             !.asked = @ \o [p \in 1..Len(toolUseBlocks(a.content)) |->
                                               toolUseBlocks(a.content)[p].name]]
            ELSE Close(run)
  /\ ev' = ChatEvent("provider_answered")
  /\ UNCHANGED <<clients, states, chan, calls, refreshes, ident, proc, ctx, twin, page>>

\* Lines 332-336: the result is pushed on toolResults and the loop goes to
\* the next tool call.
NextTool(r, result) ==
  [r EXCEPT !.pc = "tools", !.j = @ + 1, !.toolResults = Append(@, result)]

\* Lines 301-321 for tool call j: the tool_call event, then executeMcpTool up
\* to its await.  An identifier without separator makes executeMcpTool throw
\* outside its try block: the catch of the handler enqueues the error event
\* and closes.  A callTool that throws at once (no handle for the server) is
\* caught inside executeMcpTool and becomes the result text.
ToolStart ==
  /\ run.pc = "tools"
  /\ run.j <= Len(toolUseBlocks(run.content))
  /\ LET toolUse == toolUseBlocks(run.content)[run.j]
         name == displayToolName(toolUse.name)
         sid  == displayServerId(toolUse.name)
         p    == ParseToolId(toolUse.name)
     IN IF ~p.valid
        THEN /\ stream' = stream \o <<ToolCallEvent(name, sid), ErrorEvent(InvalidToolId)>>
             /\ run' = Close(run)
             /\ ev' = ChatEvent("invalid_tool_id")
             /\ UNCHANGED <<clients, states, chan, calls, refreshes>>
        ELSE /\ RequestEntry(Runner, "callTool", KeyOf(p.serverId))
             /\ IF calls'[Runner].pc = "idle"
                THEN /\ stream' = stream \o <<ToolCallEvent(name, sid),
                                              ToolResultEvent(name, sid, ErrorResult(NotConnected))>>
                     /\ run' = NextTool([run EXCEPT !.called = Call(p)],
                                        ErrorResult(NotConnected))
                ELSE /\ stream' = Append(stream, ToolCallEvent(name, sid))
                     /\ run' = [run EXCEPT !.pc = "calling", !.called = Call(p)]
  /\ UNCHANGED <<ident, proc, ctx, twin, page>>

\* Mutant: executeMcpTool has no catch, a rejected callTool reaches the catch
\* of the handler.
ToolSettle_NoCatch(ok) ==
  /\ run.pc = "calling"
  /\ RequestSettle(Runner, ok)
  /\ LET toolUse == toolUseBlocks(run.content)[run.j]
     IN IF ok
        THEN /\ stream' = Append(stream,
                            ToolResultEvent(displayToolName(toolUse.name),
                                            displayServerId(toolUse.name), ToolOutput))
             /\ run' = NextTool(run, ToolOutput)
        ELSE /\ stream' = Append(stream, ErrorEvent(RemoteError))
             /\ run' = Close(run)
  /\ UNCHANGED <<ident, proc, ctx, twin, page>>

\* The awaited callTool settles (lines 127-143), executeMcpTool returns and
\* lines 323-336 enqueue the tool_result event.
ToolSettle(ok) ==
  /\ run.pc = "calling"
  /\ RequestSettle(Runner, ok)
  /\ LET toolUse == toolUseBlocks(run.content)[run.j]
         toolResult == IF ok THEN ToolOutput ELSE ErrorResult(RemoteError)
     IN /\ stream' = Append(stream,
                       ToolResultEvent(displayToolName(toolUse.name),
                                       displayServerId(toolUse.name), toolResult))
        /\ run' = NextTool(run, toolResult)
  /\ UNCHANGED <<ident, proc, ctx, twin, page>>

\* Lines 339-351: every tool call of the turn is done, the provider is called
\* again.
NextTurn ==
  /\ run.pc = "tools"
  /\ run.j > Len(toolUseBlocks(run.content))
  /\ run' = [run EXCEPT !.pc = "provider",
                        !.messages = claudeMessages
                                       \o << AssistantTurn(run.content),
                                             UserTurn(run.content, run.toolResults) >>,
                        !.done = Append(@, [content |-> run.content,
                                            results |-> run.toolResults])]
  /\ ev' = ChatEvent("provider_called")
  /\ UNCHANGED <<clients, states, chan, calls, refreshes, stream, ident, proc, ctx, twin, page>>

\* ------------------------------------------------------ the other request
\* The handler of the chat request is not running: the request has not been
\* taken up yet, or its handler is suspended in an await (of connect, of the
\* provider or of callTool).  Only then can another request run.
Suspended == run.pc \in {"received", "connecting", "provider", "calling"}

\* Another request disconnects a server that has a handle.
OtherDisconnect ==
  /\ Suspended
  /\ \E i \in ChatIds : Has(clients, i) /\ DisconnectEntry(Other, i)
  /\ Apart

OtherClose ==
  /\ Suspended
  /\ \E ok \in BOOLEAN : CloseSettle(Other, ok)
  /\ Apart

ChatNext ==
  \/ Post
  \/ EnsureStep
  \/ EnsureAwait
  \/ Ready
  \/ ProviderFail
  \/ \E a \in GeminiAnswers : GeminiAnswer(a)
  \/ \E a \in ClaudeAnswers : ClaudeAnswer(a)
  \/ ToolStart
  \/ \E ok \in BOOLEAN : ToolSettle(ok)
  \/ NextTurn
  \/ OtherDisconnect
  \/ OtherClose

ChatSpec == ChatInit /\ [][ChatNext]_vars

\* The request up to its first provider call, for every list of configs.
EnsureInit == Arrival(ServerLists)

EnsureNext ==
  \/ Post
  \/ EnsureStep
  \/ EnsureAwait
  \/ Ready
  \/ OtherDisconnect
  \/ OtherClose

EnsureSpec == EnsureInit /\ [][EnsureNext]_vars

\* ------------------------------------------------- the registry's identity
\* global-client-manager.ts keeps the two tables in one object hung on the
\* Node.js `global`; a manager holds a reference to that object and nothing
\* else.  The module is evaluated once per route bundle that imports it, and
\* again after a reload, each evaluation with a managerInstance of its own.
\* proc holds the table objects ever created, the index global.__mcpGlobalState
\* points at (0 when undefined), every manager's this.globalState, and each
\* module's managerInstance (0 when null).
MaxManagers == 3

Modules == {"chat", "connect"}

ProcIds == {"s1", "s2"}

\* { clients: new Map(), states: new Map() }; a table object here keeps the
\* ids that have a handle and the status of the ids that have a state.
EmptyTables == [clients |-> {}, states |-> << >>]

ProcInit ==
  /\ RegistryInit
  /\ run = NoRun
  /\ stream = << >>
  /\ ident = NoIdent
  /\ ctx = NoContext
  /\ twin = NoTwin
  /\ page = NoPage
  /\ proc = [tables |-> << >>, global |-> 0, managers |-> << >>,
             managerInstance |-> [m \in Modules |-> 0]]

\* Mutant: the object is not kept on `global`; every call makes a new one.
getGlobalState_Fresh(p) ==
  [p EXCEPT !.tables = Append(@, EmptyTables), !.global = Len(p.tables) + 1]

\* getGlobalState(): the process after the call; the object returned is the
\* one its `global` points at.
getGlobalState(p) ==
  IF p.global = 0
  THEN [p EXCEPT !.tables = Append(@, EmptyTables), !.global = Len(p.tables) + 1]
  ELSE p

\* new GlobalMcpClientManager(): this.globalState = getGlobalState().
Construct(p) ==
  LET q == getGlobalState(p)
  IN [q EXCEPT !.managers = Append(@, q.global)]

ProcEvent(kind, i) == Event(kind, "manager", i, "", None, << >>)

Others == UNCHANGED <<clients, states, chan, calls, refreshes, run, stream, ident, ctx, twin, page>>

\* Some code constructs a manager of its own.
NewManager ==
  /\ Len(proc.managers) < MaxManagers
  /\ proc' = Construct(proc)
  /\ ev' = ProcEvent("manager_created", "")
  /\ Others

\* getGlobalMcpClientManager() in module m, its managerInstance still null.
\* (With managerInstance set the call returns it and changes nothing.)
GetManager(m) ==
  /\ Len(proc.managers) < MaxManagers
  /\ proc.managerInstance[m] = 0
  /\ proc' = [Construct(proc) EXCEPT !.managerInstance[m] = Len(proc.managers) + 1]
  /\ ev' = ProcEvent("manager_created", "")
  /\ Others

\* Module m is evaluated again: `let managerInstance = null`.
Reload(m) ==
  /\ proc.managerInstance[m] # 0
  /\ proc' = [proc EXCEPT !.managerInstance[m] = 0]
  /\ ev' = ProcEvent("module_reloaded", "")
  /\ Others

\* What manager k reads: this.globalState.
TablesOf(p, k) == p.tables[p.managers[k]]

\* isConnected(i) asked of manager k.
ConnectedVia(p, k, i) ==
  LET t == TablesOf(p, k)
  IN i \in t.clients /\ i \in DOMAIN t.states /\ t.states[i] = "connected"

\* A connect(i) through manager k, from call to return: nothing when the id
\* is connected already; else the handle and "connected", or "error".
ManagerConnect(k, i, ok) ==
  /\ ~ConnectedVia(proc, k, i)
  /\ LET t == TablesOf(proc, k)
     IN proc' = [proc EXCEPT !.tables[proc.managers[k]] =
                   [clients |-> IF ok THEN t.clients \cup {i} ELSE t.clients \ {i},
                    states |-> MapSet(t.states, i, IF ok THEN "connected" ELSE "error")]]
  /\ ev' = ProcEvent(IF ok THEN "manager_connected" ELSE "manager_connect_failed", i)
  /\ Others

\* A disconnect(i) through manager k, from call to return.
ManagerDisconnect(k, i) ==
  /\ LET t == TablesOf(proc, k)
     IN /\ i \in t.clients \/ (i \in DOMAIN t.states /\ t.states[i] # "disconnected")
        /\ proc' = [proc EXCEPT !.tables[proc.managers[k]] =
                      [clients |-> t.clients \ {i},
                       states |-> IF i \in DOMAIN t.states
                                  THEN MapSet(t.states, i, "disconnected") ELSE t.states]]
  /\ ev' = ProcEvent("manager_disconnected", i)
  /\ Others

ProcNext ==
  \/ NewManager
  \/ \E m \in Modules : GetManager(m)
  \/ \E m \in Modules : Reload(m)
  \/ \E k \in 1..Len(proc.managers), i \in ProcIds, ok \in BOOLEAN : ManagerConnect(k, i, ok)
  \/ \E k \in 1..Len(proc.managers), i \in ProcIds : ManagerDisconnect(k, i)

ProcSpec == ProcInit /\ [][ProcNext]_vars

\* ------------------------------------------------ McpProvider: the servers
\* The browser's server list and its export to / import from JSON text
\* (src/contexts/mcp-context.tsx, src/components/mcp/config-export-import.tsx).
\*
\* A JavaScript value is a node: its type, the characters of a string, the
\* items of an array or the properties of an object in insertion order (a
\* property is the node of its value with the property's name as key).
MaxServerList == 2

JNode(t, s, items) == [t |-> t, key |-> << >>, s |-> s, items |-> items]
JString(s) == JNode("string", s, << >>)
JNumber == JNode("number", << >>, << >>)
JNull == JNode("null", << >>, << >>)
JUndefined == JNode("undefined", << >>, << >>)
JArray(items) == JNode("array", << >>, items)
JObject(props) == JNode("object", << >>, props)
Prop(key, v) == [v EXCEPT !.key = key]

\* obj[key]: undefined for a missing property and for a value that is not an
\* object.
Get(v, key) ==
  IF v.t = "object" /\ \E j \in 1..Len(v.items) : v.items[j].key = key
  THEN LET j == CHOOSE j \in 1..Len(v.items) : v.items[j].key = key
       IN Prop(<< >>, v.items[j])
  ELSE JUndefined

\* JSON text is the sequence of its tokens (white space between tokens means
\* nothing to JSON.parse): the six punctuation marks, a number, null, or a
\* string literal holding the characters between its quotes, escapes included.
Quote == "\""
Backslash == "\\"
NewLine == "\n"

Punct(c) == [k |-> c, s |-> << >>]
NumTok == [k |-> "num", s |-> << >>]
NullTok == [k |-> "null", s |-> << >>]
StrTok(e) == [k |-> "str", s |-> e]

\* Mutant: the quote is escaped, the backslash is not.
RECURSIVE escape_QuoteOnly(_)
escape_QuoteOnly(s) ==
  IF s = << >> THEN << >>
  ELSE (IF Head(s) = Quote THEN <<Backslash, Head(s)>> ELSE <<Head(s)>>)
         \o escape_QuoteOnly(Tail(s))

\* JSON.stringify of a string, between the quotes: a quote and a backslash
\* get a backslash before them, a line feed becomes backslash and n.
RECURSIVE escape(_)
escape(s) ==
  IF s = << >> THEN << >>
  ELSE (CASE Head(s) \in {Quote, Backslash} -> <<Backslash, Head(s)>>
          [] Head(s) = NewLine -> <<Backslash, "n">>
          [] OTHER -> <<Head(s)>>)
         \o escape(Tail(s))

\* JSON.parse of a string literal: a backslash must be followed by a quote, a
\* backslash or n (the only escapes these characters can form), and a bare
\* quote or a bare line feed cannot stand inside the literal.
RECURSIVE unescape(_)
unescape(e) ==
  IF e = << >> THEN [ok |-> TRUE, s |-> << >>]
  ELSE IF Head(e) = Backslash
  THEN IF Len(e) >= 2 /\ e[2] \in {Quote, Backslash, "n"}
       THEN LET r == unescape(Tail(Tail(e)))
            IN [ok |-> r.ok, s |-> <<IF e[2] = "n" THEN NewLine ELSE e[2]>> \o r.s]
       ELSE [ok |-> FALSE, s |-> << >>]
  ELSE IF Head(e) \in {Quote, NewLine} THEN [ok |-> FALSE, s |-> << >>]
  ELSE LET r == unescape(Tail(e))
       IN [ok |-> r.ok, s |-> <<Head(e)>> \o r.s]

RECURSIVE commaJoin(_)
commaJoin(parts) ==
  IF Len(parts) = 0 THEN << >>
  ELSE IF Len(parts) = 1 THEN parts[1]
  ELSE parts[1] \o <<Punct(",")>> \o commaJoin(Tail(parts))

IsDefined(v) == v.t # "undefined"

\* JSON.stringify(value, null, 2): a property whose value is undefined is left
\* out, an undefined array item becomes null.
RECURSIVE JSONstringify(_)
JSONstringify(v) ==
  CASE v.t = "string" -> <<StrTok(escape(v.s))>>
    [] v.t = "number" -> <<NumTok>>
    [] v.t \in {"null", "undefined"} -> <<NullTok>>
    [] v.t = "array" ->
         <<Punct("[")>>
           \o commaJoin([p \in 1..Len(v.items) |-> JSONstringify(v.items[p])])
           \o <<Punct("]")>>
    [] v.t = "object" ->
         LET props == SelectSeq(v.items, IsDefined)
         IN <<Punct("{")>>
              \o commaJoin([p \in 1..Len(props) |->
                              <<StrTok(escape(props[p].key)), Punct(":")>>
                                \o JSONstringify(Prop(<< >>, props[p]))])
              \o <<Punct("}")>>

\* A repeated property name keeps its first place and takes the last value.
SetProp(props, key, v) ==
  IF \E j \in 1..Len(props) : props[j].key = key
  THEN [j \in 1..Len(props) |-> IF props[j].key = key THEN Prop(key, v) ELSE props[j]]
  ELSE Append(props, Prop(key, v))

\* JSON.parse by recursive descent: the value that starts at token p and the
\* position after it.
SyntaxError == [ok |-> FALSE, v |-> JNull, next |-> 0]
Parsed(v, next) == [ok |-> TRUE, v |-> v, next |-> next]

RECURSIVE parseValue(_, _)
RECURSIVE parseElements(_, _, _)
RECURSIVE parseMembers(_, _, _)
parseValue(ts, p) ==
  IF p > Len(ts) THEN SyntaxError
  ELSE CASE ts[p].k = "str" ->
              LET u == unescape(ts[p].s)
              IN IF u.ok THEN Parsed(JString(u.s), p + 1) ELSE SyntaxError
         [] ts[p].k = "num" -> Parsed(JNumber, p + 1)
         [] ts[p].k = "null" -> Parsed(JNull, p + 1)
         [] ts[p].k = "[" ->
              IF p + 1 <= Len(ts) /\ ts[p + 1].k = "]"
              THEN Parsed(JArray(<< >>), p + 2)
              ELSE parseElements(ts, p + 1, << >>)
         [] ts[p].k = "{" ->
              IF p + 1 <= Len(ts) /\ ts[p + 1].k = "}"
              THEN Parsed(JObject(<< >>), p + 2)
              ELSE parseMembers(ts, p + 1, << >>)
         [] OTHER -> SyntaxError

parseElements(ts, p, acc) ==
  LET r == parseValue(ts, p)
  IN IF ~r.ok \/ r.next > Len(ts) THEN SyntaxError
     ELSE IF ts[r.next].k = "," THEN parseElements(ts, r.next + 1, Append(acc, r.v))
     ELSE IF ts[r.next].k = "]" THEN Parsed(JArray(Append(acc, r.v)), r.next + 1)
     ELSE SyntaxError

parseMembers(ts, p, acc) ==
  IF p + 1 > Len(ts) \/ ts[p].k # "str" \/ ts[p + 1].k # ":" THEN SyntaxError
  ELSE LET key == unescape(ts[p].s)
           r == parseValue(ts, p + 2)
       IN IF ~key.ok \/ ~r.ok \/ r.next > Len(ts) THEN SyntaxError
          ELSE IF ts[r.next].k = ","
          THEN parseMembers(ts, r.next + 1, SetProp(acc, key.s, r.v))
          ELSE IF ts[r.next].k = "}"
          THEN Parsed(JObject(SetProp(acc, key.s, r.v)), r.next + 1)
          ELSE SyntaxError

\* JSON.parse(text): the whole text must be one value.
JSONparse(ts) ==
  LET r == parseValue(ts, 1)
  IN IF r.ok /\ r.next = Len(ts) + 1 THEN [ok |-> TRUE, v |-> r.v]
     ELSE [ok |-> FALSE, v |-> JNull]

\* Property names and values of the configs the settings form makes.
KeyId == <<"i", "d">>
KeyName == <<"n", "a", "m", "e">>
KeyTransport == <<"t", "r", "a", "n", "s", "p", "o", "r", "t">>
KeyCommand == <<"c", "o", "m", "m", "a", "n", "d">>
Stdio == <<"s", "t", "d", "i", "o">>

ServerConfig(id, name, command) ==
  JObject(<< Prop(KeyId, JString(id)), Prop(KeyName, JString(name)),
             Prop(KeyTransport, JString(Stdio)), Prop(KeyCommand, command) >>)

FormIds == { <<"a">>, <<Backslash, Quote>> }
FormNames == { <<"a">>, <<"a", Backslash>> }

FormConfigs ==
  { ServerConfig(id, name, command) :
      id \in FormIds, name \in FormNames, command \in {JUndefined, JString(<<"a">>)} }

\* The provider when mounted: no servers; the component: no import error.
ContextInit ==
  /\ RegistryInit
  /\ run = NoRun
  /\ stream = << >>
  /\ ident = NoIdent
  /\ proc = NoProc
  /\ ctx = [servers |-> << >>, importError |-> None]
  /\ twin = NoTwin
  /\ page = NoPage

CtxEvent(kind) == Event(kind, "context", "", "", None, << >>)

Aside == UNCHANGED <<clients, states, chan, calls, refreshes, run, stream, ident, proc, twin, page>>

\* addServer, lines 166-168.
AddServer(config) ==
  /\ Len(ctx.servers) < MaxServerList
  /\ ctx' = [ctx EXCEPT !.servers = Append(@, config)]
  /\ ev' = CtxEvent("server_added")
  /\ Aside

\* updateServer, lines 171-175.
UpdateServer(config) ==
  /\ \E p \in 1..Len(ctx.servers) :
       Get(ctx.servers[p], KeyId) = Get(config, KeyId) /\ ctx.servers[p] # config
  /\ ctx' = [ctx EXCEPT !.servers =
               [p \in 1..Len(@) |->
                  IF Get(@[p], KeyId) = Get(config, KeyId) THEN config ELSE @[p]]]
  /\ ev' = CtxEvent("server_updated")
  /\ Aside

\* removeServer, line 179.
RemoveServer(serverId) ==
  LET other(s) == Get(s, KeyId) # JString(serverId)
  IN /\ \E p \in 1..Len(ctx.servers) : ~other(ctx.servers[p])
     /\ ctx' = [ctx EXCEPT !.servers = SelectSeq(@, other)]
     /\ ev' = CtxEvent("server_removed")
     /\ Aside

\* exportConfig, lines 393-395.
exportConfig(servers) == JSONstringify(JArray(servers))

FailedToParse == "Failed to parse config"

\* Mutant: the Array.isArray test is dropped, whatever parses is stored.
importConfig_NoArrayCheck(servers, json) ==
  LET parsed == JSONparse(json)
  IN IF parsed.ok
     THEN [threw |-> FALSE, message |-> "", servers |-> parsed.v.items]
     ELSE [threw |-> TRUE, message |-> FailedToParse, servers |-> servers]

\* importConfig, lines 398-408: what it throws and the servers afterwards.
\* The error of JSON.parse and the "Invalid config format" error are both
\* caught and replaced by "Failed to parse config".
importConfig(servers, json) ==
  LET parsed == JSONparse(json)
  IN IF parsed.ok /\ parsed.v.t = "array"
     THEN [threw |-> FALSE, message |-> "", servers |-> parsed.v.items]
     ELSE [threw |-> TRUE, message |-> FailedToParse, servers |-> servers]

\* handleFileChange, lines 47-66, once the file is read: import, then clear
\* the import error or show the message of what was thrown.
HandleFileChange(content) ==
  LET r == importConfig(ctx.servers, content)
  IN /\ ctx' = [ctx EXCEPT !.servers = r.servers,
                           !.importError = IF r.threw THEN Some(r.message) ELSE None]
     /\ ev' = CtxEvent(IF r.threw THEN "import_failed" ELSE "imported")
     /\ Aside

\* Files a user may pick: texts that are not JSON, JSON that is not an array,
\* JSON arrays (with the items each one denotes); and, in ContextNext, the
\* text exportConfig gives for the servers of the moment.
Sample(text, expect, items) == [text |-> text, expect |-> expect, items |-> items]

ImportSamples ==
  { Sample(<< >>, "invalid", << >>),
    Sample(<<Punct("[")>>, "invalid", << >>),
    Sample(<<Punct("["), NumTok, Punct(","), Punct("]")>>, "invalid", << >>),
    Sample(<<Punct("["), Punct("]"), Punct("]")>>, "invalid", << >>),
    Sample(<<Punct("["), StrTok(<<Backslash, "a">>), Punct("]")>>, "invalid", << >>),
    Sample(<<Punct("["), Punct("{"), StrTok(KeyId), Punct(":"), Punct("}"), Punct("]")>>,
           "invalid", << >>),
    Sample(<<Punct("{"), Punct("}")>>, "not array", << >>),
    Sample(<<StrTok(<<"a">>)>>, "not array", << >>),
    Sample(<<NumTok>>, "not array", << >>),
    Sample(<<NullTok>>, "not array", << >>),
    Sample(<<Punct("{"), StrTok(KeyId), Punct(":"), StrTok(<<"a">>), Punct("}")>>,
           "not array", << >>),
    Sample(<<Punct("["), Punct("]")>>, "array", << >>),
    Sample(<<Punct("["), NumTok, Punct("]")>>, "array", <<JNumber>>),
    Sample(<<Punct("["), Punct("["), Punct("]"), Punct(","),
             StrTok(<<Backslash, Backslash>>), Punct("]")>>,
           "array", <<JArray(<< >>), JString(<<Backslash>>)>>),
    Sample(<<Punct("["), Punct("{"), StrTok(KeyId), Punct(":"), StrTok(<<"a">>), Punct(","),
             StrTok(KeyName), Punct(":"), StrTok(<<"a">>), Punct(","),
             StrTok(KeyId), Punct(":"), StrTok(<<Backslash, Quote>>), Punct("}"), Punct("]")>>,
           "array",
           <<JObject(<<Prop(KeyId, JString(<<Quote>>)), Prop(KeyName, JString(<<"a">>))>>)>>) }

ContextNext ==
  \/ \E config \in FormConfigs : AddServer(config)
  \/ \E config \in FormConfigs : UpdateServer(config)
  \/ \E serverId \in FormIds : RemoveServer(serverId)
  \/ \E s \in ImportSamples : HandleFileChange(s.text)
  \/ HandleFileChange(exportConfig(ctx.servers))

ContextSpec == ContextInit /\ [][ContextNext]_vars

\* ------------------------------------------- the two registries side by side
\* src/lib/mcp/client-manager.ts (McpClientManager) and
\* src/lib/mcp/global-client-manager.ts (GlobalMcpClientManager) implement the
\* same registry.  Here each has tables of its own and both are given the same
\* calls, one call at a time, each call running from its entry to its return
\* with the same outcomes of the channel operations it awaits.  `closes`
\* counts the client.close() calls; the channels opened are those of `chan`.
Impls == {"global", "mc"}

NoTables == [clients |-> << >>, states |-> << >>, chan |-> << >>, closes |-> 0]

\* What the awaited operations of one call do: whether client.close(),
\* client.connect(transport) and each listing succeed.
Outcomes == [close : BOOLEAN, open : BOOLEAN, fetch : [Kinds -> BOOLEAN]]

\* disconnect(serverId) from call to return; the two classes have the same
\* text (client-manager.ts 131-153, global-client-manager.ts 163-186).
disconnect(T, i, closeOk) ==
  LET T1 == IF Has(T.clients, i)
            THEN [T EXCEPT !.chan = IF closeOk
                                    THEN [@ EXCEPT ![T.clients[i]].open = FALSE]
                                    ELSE @,
                           !.closes = @ + 1,
                           !.clients = MapDelete(@, i)]
            ELSE T
  IN [T1 EXCEPT !.states = DisconnectTail(@, i)]

\* The rest of connect(config) after its first lines, from the write of
\* 'connecting' to the return or the throw (the same text in both classes):
\* the transport switch, client.connect, the handle, the three listings.
connectBody(T, cfg, o) ==
  IF ValidationError(cfg) # ""
  THEN [T EXCEPT !.states = updateState(@, cfg.id, ErrorState(cfg, ValidationError(cfg)))]
  ELSE IF ~o.open
  THEN [T EXCEPT !.states = updateState(@, cfg.id, ErrorState(cfg, TransportError))]
  ELSE [T EXCEPT !.chan = Append(@, [id |-> cfg.id, open |-> TRUE]),
                 !.clients = MapSet(@, cfg.id, Len(T.chan) + 1),
                 !.states = updateState(@, cfg.id,
                              ConnectedState(cfg, [k \in Kinds |->
                                                     fetchResult(cfg.id, k, o.fetch[k])]))]

\* connect(config) from call to return.  An id with a handle:
\* GlobalMcpClientManager (lines 67-75) returns the stored state when its
\* status is 'connected' and disconnects otherwise; McpClientManager (lines
\* 45-47) always disconnects.
connect(impl, T, cfg, o) ==
  IF Has(T.clients, cfg.id)
  THEN IF impl = "global" /\ StatusIn(T.states, cfg.id) = "connected"
       THEN T
       ELSE connectBody(disconnect(T, cfg.id, o.close), cfg, o)
  ELSE connectBody(T, cfg, o)

\* The reads and callTool, answered from tables T by class impl: isConnected
\* is clients.has in McpClientManager (line 236) and handle-and-status in
\* GlobalMcpClientManager (lines 277-278); callTool throws 'not connected'
\* without a handle and otherwise settles as the request does.
TwinOps == {"getState", "getStatus", "isConnected", "callTool"}

answer(impl, T, op, i, ok) ==
  CASE op = "getState" -> IF Has(T.states, i) THEN Some(T.states[i]) ELSE None
    [] op = "getStatus" -> Some(StatusIn(T.states, i))
    [] op = "isConnected" ->
         Some(IF impl = "mc" THEN Has(T.clients, i)
              ELSE Has(T.clients, i) /\ StatusIn(T.states, i) = "connected")
    [] op = "callTool" ->
         Some(IF ~Has(T.clients, i) THEN "not connected"
              ELSE IF ok /\ T.chan[T.clients[i]].open THEN "result" ELSE "failed")

TwinInit ==
  /\ RegistryInit
  /\ run = NoRun
  /\ stream = << >>
  /\ ident = NoIdent
  /\ proc = NoProc
  /\ ctx = NoContext
  /\ page = NoPage
  /\ twin = [pc |-> "twin", g |-> NoTables, m |-> NoTables, asked |-> "none",
             answers |-> <<None, None>>, again |-> FALSE]

Alone ==
  UNCHANGED <<clients, states, chan, calls, refreshes, ev, run, stream, ident,
              proc, ctx, page>>

\* Both are asked to connect cfg.  `again` remembers whether connect was ever
\* called for an id that had a handle.
TwinConnect(cfg, o) ==
  /\ Len(twin.g.chan) < MaxChannels
  /\ Len(twin.m.chan) < MaxChannels
  /\ twin' = [twin EXCEPT !.g = connect("global", @, cfg, o),
                          !.m = connect("mc", @, cfg, o),
                          !.asked = "connect",
                          !.answers = <<None, None>>,
                          !.again = @ \/ Has(twin.g.clients, cfg.id)
                                      \/ Has(twin.m.clients, cfg.id)]
  /\ Alone

TwinDisconnect(i, closeOk) ==
  /\ twin' = [twin EXCEPT !.g = disconnect(@, i, closeOk),
                          !.m = disconnect(@, i, closeOk),
                          !.asked = "disconnect",
                          !.answers = <<None, None>>]
  /\ Alone

TwinAsk(op, i, ok) ==
  /\ twin' = [twin EXCEPT !.asked = op,
                          !.answers = <<answer("global", twin.g, op, i, ok),
                                        answer("mc", twin.m, op, i, ok)>>]
  /\ Alone

TwinNext ==
  \/ \E cfg \in Configs, o \in Outcomes : TwinConnect(cfg, o)
  \/ \E i \in Ids, closeOk \in BOOLEAN : TwinDisconnect(i, closeOk)
  \/ \E op \in TwinOps, i \in Ids, ok \in BOOLEAN : TwinAsk(op, i, ok)

TwinSpec == TwinInit /\ [][TwinNext]_vars

\* ------------------------------------------------- the chat page's reader
\* handleSubmit of src/app/page.tsx reads the response of POST /api/chat: the
\* server writes encoder.encode(createEventString(event)) for each event and
\* the page reads the bytes in chunks cut anywhere.
MaxUnits == 2
MaxCalls == 3

DataPrefix == <<"d", "a", "t", "a", ":", " ">>
KeyType == <<"t", "y", "p", "e">>
KeyContent == <<"c", "o", "n", "t", "e", "n", "t">>
KeyMessage == <<"m", "e", "s", "s", "a", "g", "e">>
KeyToolName == <<"t", "o", "o", "l", "N", "a", "m", "e">>
KeyArgs == <<"a", "r", "g", "s">>
KeyResult == <<"r", "e", "s", "u", "l", "t">>
KeyServerId == <<"s", "e", "r", "v", "e", "r", "I", "d">>
TypeText == <<"t", "e", "x", "t">>
TypeError == <<"e", "r", "r", "o", "r">>
TypeToolCall == <<"t", "o", "o", "l", "_", "c", "a", "l", "l">>
TypeToolResult == <<"t", "o", "o", "l", "_", "r", "e", "s", "u", "l", "t">>

\* The StreamEvent objects of route.ts, lines 7-33.
SseText(content) ==
  JObject(<< Prop(KeyType, JString(TypeText)), Prop(KeyContent, JString(content)) >>)
SseError(message) ==
  JObject(<< Prop(KeyType, JString(TypeError)), Prop(KeyMessage, JString(message)) >>)
SseToolCall(toolName) ==
  JObject(<< Prop(KeyType, JString(TypeToolCall)), Prop(KeyToolName, JString(toolName)),
             Prop(KeyArgs, JObject(<< >>)), Prop(KeyServerId, JString(<<"s", "1">>)) >>)
SseToolResult(toolName, result) ==
  JObject(<< Prop(KeyType, JString(TypeToolResult)), Prop(KeyToolName, JString(toolName)),
             Prop(KeyResult, JString(result)), Prop(KeyServerId, JString(<<"s", "1">>)) >>)

\* The characters of a JSON text given as tokens, written without white space
\* (JSON.stringify with one argument).
RECURSIVE render(_)
render(ts) ==
  IF ts = << >> THEN << >>
  ELSE (CASE Head(ts).k = "str" -> <<Quote>> \o Head(ts).s \o <<Quote>>
          [] Head(ts).k = "num" -> <<"0">>
          [] Head(ts).k = "null" -> <<"n", "u", "l", "l">>
          [] OTHER -> <<Head(ts).k>>)
         \o render(Tail(ts))

\* The position of the quote that ends the string literal whose characters
\* start at p, 0 when there is none.
RECURSIVE literalEnd(_, _)
literalEnd(cs, p) ==
  IF p > Len(cs) THEN 0
  ELSE IF cs[p] = Backslash THEN literalEnd(cs, p + 2)
  ELSE IF cs[p] = Quote THEN p
  ELSE literalEnd(cs, p + 1)

\* The tokens of a JSON text given as characters, as JSON.parse reads them.
RECURSIVE tokenize(_)
tokenize(cs) ==
  IF cs = << >> THEN [ok |-> TRUE, ts |-> << >>]
  ELSE IF Head(cs) \in {"{", "}", "[", "]", ",", ":"}
  THEN LET r == tokenize(Tail(cs))
       IN [ok |-> r.ok, ts |-> <<Punct(Head(cs))>> \o r.ts]
  ELSE IF Head(cs) = "0"
  THEN LET r == tokenize(Tail(cs))
       IN [ok |-> r.ok, ts |-> <<NumTok>> \o r.ts]
  ELSE IF Len(cs) >= 4 /\ SubSeq(cs, 1, 4) = <<"n", "u", "l", "l">>
  THEN LET r == tokenize(SubSeq(cs, 5, Len(cs)))
       IN [ok |-> r.ok, ts |-> <<NullTok>> \o r.ts]
  ELSE IF Head(cs) = Quote /\ literalEnd(cs, 2) # 0
  THEN LET n == literalEnd(cs, 2)
           r == tokenize(SubSeq(cs, n + 1, Len(cs)))
       IN [ok |-> r.ok, ts |-> <<StrTok(SubSeq(cs, 2, n - 1))>> \o r.ts]
  ELSE [ok |-> FALSE, ts |-> << >>]

\* createEventString, route.ts lines 37-39: `data: ${JSON.stringify(event)}\n\n`.
createEventString(event) ==
  DataPrefix \o render(JSONstringify(event)) \o <<NewLine, NewLine>>

\* parseSSEEvent, page.tsx lines 136-142: JSON.parse, null when it throws.
parseSSEEvent(data) ==
  LET t == tokenize(data)
  IN IF t.ok THEN JSONparse(t.ts) ELSE [ok |-> FALSE, v |-> JNull]

\* TextEncoder.encode: UTF-8, in which the character U+00E9 takes the two
\* bytes C3 A9 and each other character of the samples one byte (written as
\* the character).
RECURSIVE encode(_)
encode(text) ==
  IF Len(text) = 0 THEN << >>
  ELSE IF Len(text) = 1
  THEN IF text[1] = "U+00E9" THEN <<"C3", "A9">> ELSE text
  ELSE encode(SubSeq(text, 1, Len(text) \div 2))
         \o encode(SubSeq(text, Len(text) \div 2 + 1, Len(text)))

\* decoder.decode(value, { stream: true }), line 208: the bytes the decoder
\* kept from the chunk before are put in front; a lead byte that ends the
\* chunk is kept for the next one.
decode(pending, bytes) ==
  LET bs == pending \o bytes
      IsChar(c) == c # "none"
      chars == [p \in 1..Len(bs) |->
                  CASE bs[p] = "C3" ->
                         IF p = Len(bs) THEN "none"
                         ELSE IF bs[p + 1] = "A9" THEN "U+00E9" ELSE "U+FFFD"
                    [] bs[p] = "A9" ->
                         IF p > 1 /\ bs[p - 1] = "C3" THEN "none" ELSE "U+FFFD"
                    [] OTHER -> bs[p]]
  IN [text |-> SelectSeq(chars, IsChar),
      pending |-> IF Len(bs) > 0 /\ bs[Len(bs)] = "C3" THEN <<"C3">> ELSE << >>]

\* String.prototype.startsWith.
startsWith(s, prefix) == Len(s) >= Len(prefix) /\ SubSeq(s, 1, Len(prefix)) = prefix

\* The label put before an error message (line 239): two line feeds, the
\* warning sign U+26A0 U+FE0F, a space, and the Korean word for error
\* (U+C624 U+B958) between two pairs of asterisks, a colon and a space.
ErrorLabel ==
  <<NewLine, NewLine, "U+26A0", "U+FE0F", " ", "*", "*", "U+C624", "U+B958",
    "*", "*", ":", " ">>

\* !tc.result: no result yet, or the empty string.
NoResult(tc) == ~Present(tc.result) \/ tc.result[1] = << >>

\* The switch of lines 220-243 on one event; st holds accumulatedContent and
\* the toolCalls list.
handleEvent(st, event) ==
  LET type == Get(event, KeyType).s
  IN CASE type = TypeText ->
            [st EXCEPT !.content = @ \o Get(event, KeyContent).s]
       [] type = TypeToolCall ->
            [st EXCEPT !.toolCalls =
               Append(@, [name |-> Get(event, KeyToolName).s, result |-> None])]
       [] type = TypeToolResult ->
            [st EXCEPT !.toolCalls =
               [k \in 1..Len(@) |->
                  IF @[k].name = Get(event, KeyToolName).s /\ NoResult(@[k])
                  THEN [@[k] EXCEPT !.result = Some(Get(event, KeyResult).s)]
                  ELSE @[k]]]
       [] type = TypeError ->
            [st EXCEPT !.content = @ \o ErrorLabel \o Get(event, KeyMessage).s]
       [] OTHER -> st

\* Lines 214-244 for one line; `seen` is the history of the events handled.
handleLine(st, line) ==
  IF startsWith(line, DataPrefix)
  THEN LET event == parseSSEEvent(SubSeq(line, Len(DataPrefix) + 1, Len(line)))
       IN IF event.ok
          THEN [handleEvent(st, event.v) EXCEPT !.seen = Append(@, event.v)]
          ELSE st
  ELSE st

RECURSIVE handleLines(_, _)
handleLines(st, lines) ==
  IF lines = << >> THEN st ELSE handleLines(handleLine(st, Head(lines)), Tail(lines))

\* What the server writes: text events, error events and tool calls, each
\* tool_call followed by its tool_result.
Contents == { <<"a">>, <<NewLine>>, <<"U+00E9">> }
ToolNames == { <<"t">>, <<"u">> }
Results == { << >>, <<"r">> }

ToolUnits ==
  { <<SseToolCall(n), SseToolResult(n, r)>> : n \in ToolNames, r \in Results }

Units == { <<SseText(c)>> : c \in Contents } \cup { <<SseError(<<"e">>)>> }

\* The streams of at most MaxUnits text and error events and those of one
\* tool call; the streams of at most MaxCalls tool calls.
EventStreams ==
  { Flatten(us) : us \in UNION { [1..n -> Units] : n \in 0..MaxUnits } }
    \cup ToolUnits

ToolStreams ==
  { Flatten(us) : us \in UNION { [1..n -> ToolUnits] : n \in 0..MaxCalls } }

Wire(events) == encode(Flatten([p \in 1..Len(events) |-> createEventString(events[p])]))

\* Lines 197-202: the page is about to read the stream of one response.
Reading(streams) ==
  /\ RegistryInit
  /\ run = NoRun
  /\ stream = << >>
  /\ ident = NoIdent
  /\ proc = NoProc
  /\ ctx = NoContext
  /\ twin = NoTwin
  /\ page \in { [pc |-> "reading", events |-> es, wire |-> Wire(es), pos |-> 0,
                 pending |-> << >>, buffer |-> << >>, content |-> << >>,
                 toolCalls |-> << >>, seen |-> << >>, sent |-> 0] : es \in streams }

PageInit == Reading(EventStreams)

Besides ==
  UNCHANGED <<clients, states, chan, calls, refreshes, ev, run, stream, ident,
              proc, ctx, twin>>

\* Mutant: the last piece is not kept; every chunk starts an empty buffer.
AfterChunk_DropsRest(n) ==
  LET d == decode(page.pending, SubSeq(page.wire, page.pos + 1, page.pos + n))
      lines == split(page.buffer \o d.text, <<NewLine>>)
      st == handleLines(page, SubSeq(lines, 1, Len(lines) - 1))
  IN [st EXCEPT !.pos = @ + n, !.pending = d.pending, !.buffer = << >>]

\* The page after one turn of the loop of lines 204-245 in which
\* reader.read() delivers the next n bytes: decode, add to the buffer, split
\* at line feeds, keep the last piece in the buffer and handle the lines
\* before it.
AfterChunk(n) ==
  LET d == decode(page.pending, SubSeq(page.wire, page.pos + 1, page.pos + n))
      lines == split(page.buffer \o d.text, <<NewLine>>)
      st == handleLines(page, SubSeq(lines, 1, Len(lines) - 1))
  IN [st EXCEPT !.pos = @ + n, !.pending = d.pending, !.buffer = lines[Len(lines)]]

\* The stream delivers the next n bytes, cut anywhere.
ReadChunk(n) ==
  /\ page.pc = "reading"
  /\ page.pos + n <= Len(page.wire)
  /\ page' = AfterChunk(n)
  /\ Besides

\* reader.read() reports done: the loop is left (line 206).
ReadDone ==
  /\ page.pc = "reading"
  /\ page.pos = Len(page.wire)
  /\ page' = [page EXCEPT !.pc = "done"]
  /\ Besides

PageNext ==
  \/ \E n \in 1..(Len(page.wire) - page.pos) : ReadChunk(n)
  \/ ReadDone

PageSpec == PageInit /\ [][PageNext]_vars

\* The reader is handed the chunks as the server enqueued them, one event
\* each (route.ts: controller.enqueue(encoder.encode(createEventString(e)))).
ReadEvent ==
  /\ page.pc = "reading"
  /\ page.sent < Len(page.events)
  /\ page' = [AfterChunk(Len(encode(createEventString(page.events[page.sent + 1]))))
                 EXCEPT !.sent = @ + 1]
  /\ Besides

ToolInit == Reading(ToolStreams)

ToolNext == ReadEvent \/ ReadDone

ToolSpec == ToolInit /\ [][ToolNext]_vars

\* ================================================================ claims
\* The status changes of the state machine of spec section 4.3.
SpecTransitions ==
  { <<"disconnected", "connecting">>, <<"connecting", "connected">>,
    <<"connecting", "error">>, <<"connected", "disconnected">>,
    <<"error", "connecting">> }

\* The status changes the last step made.
Changes ==
  { <<ev.path[n], ev.path[n + 1]>> : n \in { m \in 1..Len(ev.path) : m < Len(ev.path) } }
    \ { <<x, x>> : x \in {"disconnected", "connecting", "connected", "error"} }

\* Connect calls that have invoked client.connect and have not settled.
Opening(i) ==
  { c \in Callers : calls[c].op = "connect" /\ calls[c].id = i
                     /\ calls[c].pc \in {"open", "fetch"} }

\* C1: among concurrent connect calls for one id, at most one invokes
\* client.connect: no second channel is opened while a connect for the id is
\* in flight.
C1_OneOpenPerId == \A i \in Ids : Cardinality(Opening(i)) <= 1

\* C2: a connect for an id that is connected with a handle returns the stored
\* state, whatever the config passed, and leaves the handle table, the state
\* table and every channel as they were.
C2_ConnectIdempotent ==
  [][ \A c \in Callers, cfg \in Configs :
        (ConnectEntry(c, cfg) /\ AlreadyConnected(cfg.id))
          => /\ UNCHANGED <<clients, states, chan, calls>>
             /\ ev'.kind = "connect_existing"
             /\ ev'.ret = Some(states[cfg.id]) ]_vars

\* C2 witness: a connect returned the stored state although its config names
\* another transport than the stored one.
C2_Witness ==
  /\ ev.kind = "connect_existing"
  /\ ev.ret[1].config.transport # ev.arg
  /\ ev.ret[1].status = "connected"

C4_ConnectingBeforeAwait ==
  (ev.op = "connect" /\ ev.kind \in {"connect_opening", "await_close"})
    => getStatus(ev.id) = "connecting"

\* C5: callTool / getPrompt / readResource send a request only when the id's
\* status is connected, and fail in every other status.
C5_RequestOnlyWhenConnected ==
  /\ ev.kind = "request_sent" => getStatus(ev.id) = "connected"
  /\ ev.kind = "not_connected" => getStatus(ev.id) # "connected"

\* C6: an id whose status is error has no entry in the handle table.
C6_ErrorHasNoHandle ==
  \A i \in DOMAIN states : states[i].status = "error" => ~Has(clients, i)

\* C7 as stated: once disconnect(id) has returned, getState(id) is a state
\* with status disconnected and no capability lists, and the handle table has
\* no entry for id.
C7_DisconnectThenGetState ==
  ev.kind = "disconnect_return"
    => /\ Present(getState(ev.id))
       /\ getState(ev.id)[1].status = "disconnected"
       /\ \A k \in Kinds : ~Present(getState(ev.id)[1][k])
       /\ ~Has(clients, ev.id)

\* C7 as amended: once disconnect(id) has returned the handle table has no
\* entry for id; if the state table has an entry for id it has status
\* disconnected and no capability lists; if it has none (the registry never
\* saw the id) getState(id) is undefined and getStatus(id) is disconnected.
C7_DisconnectNormalizes ==
  ev.kind = "disconnect_return"
    => /\ ~Has(clients, ev.id)
       /\ getStatus(ev.id) = "disconnected"
       /\ IF Has(states, ev.id)
          THEN \A k \in Kinds : ~Present(getState(ev.id)[1][k])
          ELSE getState(ev.id) = None

\* C7 witness: disconnect returned for an id that was connected.
C7_Witness ==
  /\ ev.kind = "disconnect_return"
  /\ ev.path = <<"connected", "disconnected">>
  /\ Has(states, ev.id)

\* C8: a state carries an error message exactly when its status is error.
C8_ErrorIffErrorStatus ==
  \A i \in DOMAIN states : Present(states[i].error) <=> states[i].status = "error"

\* C9: the tools, prompts and resources of a state are present exactly when
\* its status is connected.
C9_ListsIffConnected ==
  \A i \in DOMAIN states, k \in Kinds :
    Present(states[i][k]) <=> states[i].status = "connected"

\* C10: a connect whose channel opened leaves the capability fetch only by
\* writing the connected state, in which every kind whose listing failed is
\* the empty list and every other kind is the list the server gave.
C10_FetchFailsSoft ==
  [][ \A c \in Callers :
        (calls[c].op = "connect" /\ calls[c].pc = "fetch" /\ calls'[c].pc # "fetch")
          => /\ Has(states', calls[c].id)
             /\ states'[calls[c].id].status = "connected"
             /\ \A k \in Kinds :
                  states'[calls[c].id][k] =
                    Some(IF k \in calls[c].failed THEN << >>
                         ELSE ServerList(calls[c].id, k)) ]_vars

\* C10 witness: a connect returned connected although the prompt listing
\* failed: prompts is empty, tools and resources are the server's lists.
C10_Witness ==
  /\ ev.kind = "connect_return"
  /\ ev.ret[1].status = "connected"
  /\ ev.ret[1].prompts = Some(<< >>)
  /\ ev.ret[1].tools = Some(ServerList(ev.id, "tools"))
  /\ ev.ret[1].resources = Some(ServerList(ev.id, "resources"))

\* ---------------------------------------------------------------- C11
HasSeparator(s) == indexOf(s, Separator) # 0

EndsWithUnderscore(s) == Len(s) > 0 /\ s[Len(s)] = "_"

RoundTrips ==
  /\ ident.parsed.valid
  /\ ident.parsed.serverId = ident.serverId
  /\ ident.parsed.toolName = ident.name

\* C11 as written: for every server id without "__" and every tool name,
\* parsing the qualified identifier gives back the server id and the tool
\* name.  Violated by a server id that ends in "_".
C11_RoundTrip ==
  (ident.pc = "resolved" /\ ~HasSeparator(ident.serverId)) => RoundTrips

\* C11 amended: the same for every server id that neither contains "__" nor
\* ends in "_".
C11_RoundTripNoTrailingUnderscore ==
  (ident.pc = "resolved" /\ ~HasSeparator(ident.serverId)
     /\ ~EndsWithUnderscore(ident.serverId)) => RoundTrips

\* A tool name that begins with "_" and contains "__" has made the round trip.
C11_Witness ==
  /\ ident.pc = "resolved"
  /\ ~HasSeparator(ident.serverId) /\ ~EndsWithUnderscore(ident.serverId)
  /\ Len(ident.serverId) > 0
  /\ HasSeparator(ident.name) /\ Head(ident.name) = "_"
  /\ Len(split(ident.toolId, Separator)) > 2
  /\ RoundTrips

\* ---------------------------------------------------------------- C20
\* C20: a callTool, getPrompt or readResource call that throws because the id
\* has no handle leaves the handle table and the state table as they were.
C20_FailedRequestChangesNothing ==
  [][ev'.kind = "not_connected" => (clients' = clients /\ states' = states)]_vars

\* Such a call has just thrown on an id whose state entry is not disconnected,
\* while the registry holds entries.
C20_Witness ==
  /\ ev.kind = "not_connected"
  /\ ev.op \in RequestOps
  /\ Has(states, ev.id) /\ states[ev.id].status \in {"connecting", "error"}
  /\ ~Has(clients, ev.id)

\* ---------------------------------------------------------------- C12
Last(s) == s[Len(s)]

HasError(s) == \E p \in 1..Len(s) : s[p].type = "error"

\* C12: when the callTool made by executeMcpTool rejects (no handle for the
\* server, or the remote call fails), executeMcpTool returns "Error executing
\* tool: <message>": that text is the tool_result event and the entry pushed on
\* toolResults, no error event is sent and the loop goes on.
C12_RejectedCallIsResult ==
  ev.kind \in {"not_connected", "request_throw"} =>
    LET text == ErrorResult(IF ev.kind = "not_connected" THEN NotConnected
                            ELSE RemoteError)
    IN /\ run.pc = "tools"
       /\ Len(stream) > 0
       /\ Last(stream).type = "tool_result"
       /\ Last(stream).content = text
       /\ Len(run.toolResults) > 0
       /\ Last(run.toolResults) = text
       /\ ~HasError(stream)

\* The remote call of a connected server has just failed and became the
\* result of the first of two tool calls.
C12_Witness ==
  /\ ev.kind = "request_throw"
  /\ run.pc = "tools"
  /\ run.j = 2
  /\ Len(toolUseBlocks(run.content)) = 2
  /\ Last(stream) = ToolResultEvent(<<"b">>, Chars("s1"), ErrorResult(RemoteError))

\* ---------------------------------------------------------------- C13
\* C13: an error event is sent only for a failed provider call, and a run that
\* has entered a tool turn is not closed before every tool call of that turn
\* has been executed.  Violated by a tool name without separator.
C13_OnlyProviderFailureAborts ==
  /\ \A p \in 1..Len(stream) :
       stream[p].type = "error" => stream[p].content = <<ProviderError>>
  /\ (run.pc = "closed" /\ run.req.provider = "claude" /\ run.turns > 0) =>
       Len(run.toolResults) = Len(toolUseBlocks(run.content))

\* ---------------------------------------------------------------- C14
\* The tool_call event of tool call i of the turn being worked on, followed by
\* its tool_result event.
CallAndResult(i) ==
  LET name == toolUseBlocks(run.content)[i].name
  IN << ToolCallEvent(displayToolName(name), displayServerId(name)),
        ToolResultEvent(displayToolName(name), displayServerId(name),
                        run.toolResults[i]) >>

\* The events of the turn for its first n tool calls: the text blocks, then
\* call and result of each tool call in request order.
TurnEvents(n) ==
  TextEvents(run.content) \o Flatten([i \in 1..n |-> CallAndResult(i)])

SinceAnswer == SubSeq(stream, run.base + 1, Len(stream))

StartsWith(s, t) == Len(t) <= Len(s) /\ SubSeq(s, 1, Len(t)) = t

\* C14: in a tool turn of the Claude loop the events are the text blocks of
\* the turn, then tool_call(ti) immediately followed by tool_result(ti) for
\* i = 1..n in request order: while tool call j is under way the stream holds
\* exactly that for the calls before j and the tool_call of j; when the loop
\* has left the turn it holds all n pairs before any later event.  Violated by
\* the tool name without separator of C13.
C14_TurnOrder ==
  (run.req.provider = "claude" /\ run.turns > 0) =>
    LET n == Len(toolUseBlocks(run.content))
        name == toolUseBlocks(run.content)[run.j].name
    IN CASE run.pc = "tools" ->
              SinceAnswer = TurnEvents(run.j - 1) /\ Len(run.toolResults) = run.j - 1
         [] run.pc = "calling" ->
              SinceAnswer = TurnEvents(run.j - 1)
                  \o <<ToolCallEvent(displayToolName(name), displayServerId(name))>>
         [] run.pc \in {"provider", "closed"} ->
              Len(run.toolResults) = n /\ StartsWith(SinceAnswer, TurnEvents(n))
         [] OTHER -> TRUE

\* ---------------------------------------------------------------- C15
Range(s) == { s[p] : p \in 1..Len(s) }

\* The run has ended without error, MCP tools were enabled and every tool the
\* provider asked for was one given to it from a connected server.
AskedDeclaredTools ==
  /\ run.pc = "closed"
  /\ run.req.mcpEnabled
  /\ Len(run.asked) > 0
  /\ Range(run.asked) \subseteq Range(run.tools)
  /\ ~HasError(stream)

ResultFollowsCall ==
  \A p \in 1..Len(stream) :
    stream[p].type = "tool_call" =>
      /\ p < Len(stream)
      /\ stream[p + 1].type = "tool_result"
      /\ stream[p + 1].toolName = stream[p].toolName
      /\ stream[p + 1].serverId = stream[p].serverId

TextComesLast ==
  \E q \in 1..Len(stream) :
    /\ stream[q].type = "text"
    /\ \A p \in 1..Len(stream) :
         stream[p].type \in {"tool_call", "tool_result"} => p < q

\* C15: for Claude and for Gemini, in a run that asked for tools of a
\* connected server, every tool_call event is followed by the tool_result event
\* of the same tool and server, and the final text event comes after them.
\* Violated by the Gemini handler.
C15_CallResultText == AskedDeclaredTools => (ResultFollowsCall /\ TextComesLast)

\* ---------------------------------------------------------------- C16
ErrorCount == Cardinality({ p \in 1..Len(stream) : stream[p].type = "error" })

FailureReported ==
  /\ run.pc = "closed"
  /\ ErrorCount = 1
  /\ Last(stream) = ErrorEvent(ProviderError)

\* C16: when a provider call fails, at whatever turn, the stream is closed
\* with exactly one error event, which is its last event; the failing step and
\* every other step only append to the stream, and nothing is appended once it
\* is closed, so the events sent before the failure stay in their order.
C16_ProviderFailureEndsStream ==
  /\ [](ev.kind = "provider_failed" => FailureReported)
  /\ []((\E p \in 1..Len(stream) : stream[p] = ErrorEvent(ProviderError)) => FailureReported)
  /\ [][/\ StartsWith(stream', stream)
        /\ run.pc = "closed" => stream' = stream
        /\ ev'.kind = "provider_failed" /\ ev.kind # "provider_failed" =>
             stream' = Append(stream, ErrorEvent(ProviderError))]_vars

\* The provider call after a tool turn has failed: the text, tool_call and
\* tool_result events of the turn precede the error event.
C16_Witness ==
  /\ ev.kind = "provider_failed"
  /\ run.turns >= 1
  /\ Len(stream) >= 4
  /\ stream[1].type = "text"
  /\ stream[2].type = "tool_call"
  /\ stream[3].type = "tool_result"
  /\ stream[4].type = "error"

\* ---------------------------------------------------------------- C17
\* C17: a request whose provider has no API key configured is answered with
\* an event stream that holds exactly one error event and no text event.
\* Violated: no stream is built, the answer is a JSON body with status 500.
C17_MissingKeyErrorEvent ==
  (run.pc \in {"done", "closed"} /\ run.req.messages /\ ~run.req.key) =>
    /\ run.response = "event stream"
    /\ ErrorCount = 1
    /\ \A p \in 1..Len(stream) : stream[p].type # "text"

\* ---------------------------------------------------------------- C18
\* C18: the tool loop has a maximum number of turns: a run whose provider has
\* answered with tool calls that many times (here MaxTurns, the most the model
\* lets it answer) is stopped with an error event instead of calling the
\* provider once more.  Violated: the loop has no turn count.
C18_LoopStopsAtMaxTurns ==
  run.turns >= MaxTurns => (run.pc # "provider" /\ (run.pc = "closed" => HasError(stream)))

\* ---------------------------------------------------------------- C19
ListedIds == { run.req.mcpServers[p].id : p \in 1..Len(run.req.mcpServers) }

\* s is t with some entries left out.
RECURSIVE IsSubSeq(_, _)
IsSubSeq(s, t) ==
  IF Len(s) = 0 THEN TRUE
  ELSE IF Len(t) = 0 THEN FALSE
  ELSE IF Head(s) = Head(t) THEN IsSubSeq(Tail(s), Tail(t))
  ELSE IsSubSeq(s, Tail(t))

\* The ids of the configs before position k, in config order.
IdsBefore(k) == [p \in 1..(k - 1) |-> run.req.mcpServers[p].id]

\* ensureMcpConnections has just returned (the handler has not gone on yet).
EnsureReturned == run.pc = "ready" /\ run.req.mcpEnabled /\ Len(run.req.mcpServers) > 0

Undisturbed ==
  /\ calls[Other].pc = "idle"
  /\ \A h \in 1..Len(chan) : Has(clients, chan[h].id) /\ clients[chan[h].id] = h

C21_CloseFailureSwallowed ==
  [][\A c \in Callers :
       (calls[c].pc = "close" /\ calls'[c].pc # "close") =>
         LET i == calls[c].id
         IN /\ ev'.kind = "disconnect_return"
            /\ calls'[c].pc = IF calls[c].nested THEN "resume" ELSE "idle"
            /\ ~Has(clients', i)
            /\ Has(states', i)
            /\ states'[i].status = "disconnected"
            /\ states'[i].tools = None
            /\ states'[i].prompts = None
            /\ states'[i].resources = None]_vars

\* Witness: a disconnect of a connected id has returned although close threw:
\* the only channel ever opened is still open and its handle is gone.
C21_Witness ==
  /\ ev.kind = "disconnect_return"
  /\ ev.op = "disconnect"
  /\ ev.path = <<"connected", "disconnected">>
  /\ Len(chan) = 1
  /\ chan[1].open
  /\ ~Has(clients, ev.id)
  /\ states[ev.id].tools = None

\* ---------------------------------------------------------------- C22
Invalid(cfg) == ValidationError(cfg) # ""

\* No call is ever suspended in client.connect, or past it, with a config the
\* transport switch rejects, and a step that opens a channel or stores a
\* handle is the step of a call whose config the switch accepts.
NeverOpensInvalid ==
  /\ [](\A c \in Callers :
          calls[c].pc \in {"open", "fetch"} => ~Invalid(calls[c].config))
  /\ [][(chan' # chan /\ Len(chan') > Len(chan)) \/
        (\E i \in Ids : Has(clients', i) /\ (Has(clients, i) => clients'[i] # clients[i]))
          => \E c \in Callers : /\ calls[c].pc = "open"
                                /\ calls'[c].pc = "fetch"
                                /\ ~Invalid(calls[c].config)]_vars

\* connect() resumed after its own disconnect with a rejected config throws
\* and leaves the error status.
InvalidResumeThrows ==
  [][\A c \in Callers :
       (calls[c].pc = "resume" /\ calls'[c] # calls[c] /\ Invalid(calls[c].config))
         => /\ ev'.kind = "connect_throw"
            /\ calls'[c] = Idle
            /\ states'[calls[c].id].status = "error"
            /\ states'[calls[c].id].error = Some(ValidationError(calls[c].config))]_vars

\* C22 as stated: a connect with a rejected config fails (at once, or after
\* the disconnect it awaits first), never invokes client.connect and stores
\* no handle.
C22_InvalidConfigFails ==
  /\ NeverOpensInvalid
  /\ InvalidResumeThrows
  /\ [][\A c \in Callers, cfg \in AllConfigs :
          (Invalid(cfg) /\ ConnectEntry(c, cfg))
            => ev'.kind \in {"connect_throw", "await_close"}]_vars

\* C22: a connect with a rejected config never invokes client.connect and
\* stores no handle; it fails (at once, or after the disconnect it awaits
\* first) unless the id is already connected, and then it returns the stored
\* state and changes nothing.
C22_InvalidConfigNeverOpens ==
  /\ NeverOpensInvalid
  /\ InvalidResumeThrows
  /\ [][\A c \in Callers, cfg \in AllConfigs :
          (Invalid(cfg) /\ ConnectEntry(c, cfg))
            => IF AlreadyConnected(cfg.id)
               THEN /\ ev'.kind = "connect_existing"
                    /\ ev'.ret = Some(states[cfg.id])
                    /\ UNCHANGED <<clients, states, chan, calls>>
               ELSE \/ ev'.kind = "await_close"
                    \/ /\ ev'.kind = "connect_throw"
                       /\ states'[cfg.id].status = "error"
                       /\ states'[cfg.id].error = Some(ValidationError(cfg))
                       /\ UNCHANGED <<clients, chan>>]_vars

\* Witness: a connect with an unknown transport has thrown after closing the
\* channel of the id's earlier connection; no handle is stored.
C22_Witness ==
  /\ ev.kind = "connect_throw"
  /\ ev.arg = "websocket"
  /\ ev.path = <<"disconnected", "connecting", "error">>
  /\ Len(chan) = 1
  /\ ~chan[1].open
  /\ ~Has(clients, ev.id)
  /\ states[ev.id].error = Some("Unsupported transport type")

\* ---------------------------------------------------------------- C24
\* C24: no step of connect, disconnect, callTool, getPrompt or readResource,
\* succeeding or failing, removes an entry from the state table: every id
\* with an entry before the step has one after it.
C24_StateEntriesStay ==
  [][\A i \in DOMAIN states : Has(states', i)]_vars

\* Witness: an id that went connecting -> error has been disconnected, a
\* request on it has then been refused, and its entry is still there.
C24_Witness ==
  /\ ev.kind = "not_connected"
  /\ Has(states, ev.id)
  /\ ~Has(clients, ev.id)
  /\ states[ev.id].status = "disconnected"
  /\ Present(states[ev.id].error)

\* ---------------------------------------------------------------- C25
\* One connect call invokes client.connect at most once: the call leaves its
\* wait for the channel to open either to the capability fetch or by
\* rejecting, and from the fetch it only returns.
OneOpenAttempt ==
  [][\A c \in Callers :
       /\ (calls[c].pc = "open" /\ calls'[c] # calls[c])
            => calls'[c].pc \in {"fetch", "idle"}
       /\ (calls[c].pc = "fetch" /\ calls'[c] # calls[c])
            => calls'[c].pc \in {"fetch", "idle"}]_vars

\* A connect call that has passed its own write of "connecting" and is
\* waiting for its channel or its listings: it was called before any error
\* status the id shows now was written.
CalledBeforeError(c, i) ==
  calls[c].op = "connect" /\ calls[c].id = i /\ calls[c].pc \in {"open", "fetch"}

\* C25: a connect call makes at most one attempt to open a channel, and an
\* entry with status error changes (status or message) only in a step of a
\* connect or disconnect call for that id which was not already under way
\* when the error was written.
C25_ErrorStaysUntilLaterCall ==
  /\ OneOpenAttempt
  /\ [][\A i \in DOMAIN states :
          (states[i].status = "error" /\ states'[i] # states[i])
            => /\ ev'.op \in {"connect", "disconnect"}
               /\ ev'.id = i
               /\ ~\E c \in Callers : CalledBeforeError(c, i) /\ calls'[c] # calls[c]]_vars

\* ---------------------------------------------------------------- C26
\* C26: a step of getState, getAllStates, getStatus, isConnected or
\* getConnectedIds leaves the handle table, the state table, every channel
\* and every call in progress as they were, and getStatus answers
\* "disconnected" for an id without an entry.
C26_ReadsArePure ==
  /\ [][ev'.kind = "read" => UNCHANGED <<clients, states, chan, calls>>]_vars
  /\ []((ev.kind = "read" /\ ev.op = "getStatus" /\ ~Has(states, ev.id))
          => ev.ret = Some("disconnected"))

\* Witness: getStatus has been asked about an id no connect ever named, while
\* a connect for another id was waiting for its channel.
C26_Witness ==
  /\ ev.kind = "read"
  /\ ev.op = "getStatus"
  /\ ev.id = "s0"
  /\ ~Has(states, "s0")
  /\ ev.ret = Some("disconnected")
  /\ \E c \in Callers : calls[c].pc = "open"

\* ---------------------------------------------------------------- C29
\* The request asks for no tools: tool use is disabled or no server config
\* is supplied.
WithoutTools ==
  run.pc # "none" /\ (~run.req.mcpEnabled \/ Len(run.req.mcpServers) = 0)

\* C29: in a run whose request disables tool use or supplies no server
\* config, the handler never enters ensureMcpConnections and has no connect
\* call on the registry, the tool declaration list given to the provider is
\* empty, and no step of the run changes the handle table, the state table
\* or a channel (the steps of another request set aside).
C29_NoToolsNoRegistryWrite ==
  /\ [](WithoutTools =>
          /\ run.pc \notin {"ensure", "connecting"}
          /\ calls[Runner].op # "connect"
          /\ run.connectedIds = << >>
          /\ run.tools = << >>)
  /\ [][(WithoutTools /\ calls'[Other] = calls[Other])
          => /\ UNCHANGED <<clients, states, chan>>
             /\ ev'.op # "connect"]_vars

\* Witness: a run with tool use disabled, given the config of a connected
\* server, has gone through a tool turn and closed its stream; the server's
\* handle and state are still there.
C29_Witness ==
  /\ run.pc = "closed"
  /\ ~run.req.mcpEnabled
  /\ Len(run.req.mcpServers) = 1
  /\ run.turns >= 1
  /\ run.tools = << >>
  /\ isConnected("s1")

\* ---------------------------------------------------------------- C30
\* The history the claim describes: the original messages, then for every
\* completed tool turn, in order, the assistant turn with the turn's content
\* and the user turn with its results keyed by call id.
FullHistory(done) ==
  claudeMessages
    \o Flatten([t \in 1..Len(done) |->
                  << AssistantTurn(done[t].content),
                     UserTurn(done[t].content, done[t].results) >>])

\* C30: in a Claude run, the message list of every provider call after the
\* first is the original history followed by the assistant turn and the
\* tool-result turn of every tool turn completed so far, in order.
C30_HistoryKeepsEveryTurn ==
  (run.pc # "none" /\ run.req.provider = "claude" /\ Len(run.done) >= 1)
    => run.messages = FullHistory(run.done)

\* The same for the call that follows the first tool turn only.
C30_AfterFirstTurn ==
  (run.pc # "none" /\ run.req.provider = "claude" /\ Len(run.done) = 1)
    => run.messages = FullHistory(run.done)

\* ---------------------------------------------------------------- C23
\* C23: every manager, whether obtained through getGlobalMcpClientManager in
\* any module or constructed directly, holds the one table object `global`
\* points at; so all managers give the same answer to isConnected, and a
\* connection made through one manager is seen as connected through every
\* manager, those created afterwards included.
C23_OneRegistry ==
  /\ [](\A k \in 1..Len(proc.managers) :
          proc.global # 0 /\ proc.managers[k] = proc.global)
  /\ [](\A k1, k2 \in 1..Len(proc.managers), i \in ProcIds :
          ConnectedVia(proc, k1, i) <=> ConnectedVia(proc, k2, i))
  /\ [][ev'.kind = "manager_connected"
          => \A k \in 1..Len(proc'.managers) : ConnectedVia(proc', k, ev'.id)]_vars
  /\ [][\A i \in ProcIds :
          ((\E k \in 1..Len(proc.managers) : ConnectedVia(proc, k, i))
             /\ ev'.kind = "manager_created")
            => ConnectedVia(proc', Len(proc'.managers), i)]_vars

\* Witness: the two modules hold different managers, a third manager has just
\* been constructed, and it reports s1, connected earlier, as connected.
C23_Witness ==
  /\ ev.kind = "manager_created"
  /\ Len(proc.managers) = 3
  /\ proc.managerInstance["chat"] # 0
  /\ proc.managerInstance["connect"] # 0
  /\ proc.managerInstance["chat"] # proc.managerInstance["connect"]
  /\ ConnectedVia(proc, 3, "s1")

\* ---------------------------------------------------------------- C27
\* C27: importing a text that is not JSON, or JSON that is not an array,
\* throws ("Failed to parse config", shown as the import error) and leaves
\* the server list as it was; importing a JSON array makes the server list
\* exactly the items of that array and clears the import error.
C27_ImportAllOrNothing ==
  [][\A s \in ImportSamples :
       HandleFileChange(s.text)
         => IF s.expect = "array"
            THEN /\ ev'.kind = "imported"
                 /\ ctx'.servers = s.items
                 /\ ctx'.importError = None
            ELSE /\ ev'.kind = "import_failed"
                 /\ ctx'.servers = ctx.servers
                 /\ ctx'.importError = Some(FailedToParse)]_vars

\* Witness: an import has failed on a list of two servers, which is kept.
C27_Witness ==
  /\ ev.kind = "import_failed"
  /\ ctx.importError = Some(FailedToParse)
  /\ Len(ctx.servers) = 2
  /\ ctx.servers[1] \in FormConfigs

\* ---------------------------------------------------------------- C28
SameField(a, b, key) == Get(a, key) = Get(b, key)

\* C28: importing the text exportConfig gives for the current server list
\* succeeds and yields a list of the same length whose servers have, position
\* by position, the same id, name and transport.
C28_ExportImportRoundTrip ==
  [][HandleFileChange(exportConfig(ctx.servers))
       => /\ ev'.kind = "imported"
          /\ Len(ctx'.servers) = Len(ctx.servers)
          /\ \A p \in 1..Len(ctx.servers), key \in {KeyId, KeyName, KeyTransport} :
               SameField(ctx'.servers[p], ctx.servers[p], key)]_vars

\* Witness: a list of two servers has come back from a round trip (the
\* undefined command of the first is gone) with an id and a name that need
\* escaping.
C28_Witness ==
  /\ ev.kind = "imported"
  /\ Len(ctx.servers) = 2
  /\ Get(ctx.servers[1], KeyId) = JString(<<Backslash, Quote>>)
  /\ Get(ctx.servers[1], KeyTransport) = JString(Stdio)
  /\ Len(ctx.servers[1].items) = 3
  /\ Get(ctx.servers[2], KeyName) = JString(<<"a", Backslash>>)
  /\ Len(ctx.servers[2].items) = 4

\* ---------------------------------------------------------------- C32
\* A handle that is in the table and whose channel has not been closed.
LiveHandle(i) == Has(clients, i) /\ chan[clients[i]].open

\* C32: in every state an id whose status is connected has a live handle in
\* the handle table, and no callTool, getPrompt or readResource on an id whose
\* status is connected is refused with "not connected".
C32_ConnectedHasLiveHandle ==
  /\ \A i \in DOMAIN states : states[i].status = "connected" => LiveHandle(i)
  /\ ev.kind = "not_connected" => getStatus(ev.id) # "connected"

\* ---------------------------------------------------------------- C33
\* Channel h is the handle the table holds for its id.
IsHandle(h) == Has(clients, chan[h].id) /\ clients[chan[h].id] = h

\* C33: every channel that was opened is the handle stored for its id or has
\* been closed, and no step overwrites or drops the handle of a channel that
\* is still open afterwards.
C33_NoChannelLeaked ==
  /\ [](\A h \in 1..Len(chan) : chan[h].open => IsHandle(h))
  /\ [][\A h \in 1..Len(chan) :
          (IsHandle(h) /\ chan[h].open /\ ~IsHandle(h)') => ~chan'[h].open]_vars

\* ---------------------------------------------------------------- C37
\* Call c is a connect with a capability listing still outstanding.
FetchOutstanding(c) ==
  calls[c].op = "connect" /\ calls[c].pc = "fetch" /\ calls[c].pending # {}

\* The step in which a connect call writes the connected state is taken with
\* none of that call's listings outstanding.
ConnectedAfterFetches ==
  [][\A c \in Callers :
       (calls[c].op = "connect" /\ calls[c].pc = "fetch" /\ calls'[c] = Idle
          /\ ev'.kind = "connect_return")
         => calls[c].pending = {}]_vars

\* C37: a connect call writes status connected only after its three listings
\* have settled, and while a listing of a connect call for an id is
\* outstanding the status of that id is not connected.
C37_ConnectedOnlyAfterFetches ==
  /\ ConnectedAfterFetches
  /\ [](\A c \in Callers : FetchOutstanding(c) => getStatus(calls[c].id) # "connected")

\* ---------------------------------------------------------------- C31
\* The event shows the tool name and the server id of the latest callTool.
ShowsCall(e) == e.toolName = run.called.toolName /\ e.serverId = run.called.serverId

\* C31: for every tool call of the Claude loop that reaches manager.callTool,
\* the tool_call event (emitted before the call is awaited) and the
\* tool_result event (emitted when it has settled) carry the tool name and
\* the server id passed to callTool.
C31_EventsNameTheCall ==
  /\ (run.pc = "calling")
       => Last(stream).type = "tool_call" /\ ShowsCall(Last(stream))
  /\ (run.pc = "tools" /\ run.j > 1)
       => Last(stream).type = "tool_result" /\ ShowsCall(Last(stream))

\* The same for the server id alone.
C31_EventsNameTheServer ==
  (run.pc = "calling" \/ (run.pc = "tools" /\ run.j > 1))
    => Last(stream).serverId = run.called.serverId

\* ---------------------------------------------------------------- C35
\* The tools registered for id i, as the registry state lists them.
ListedBy(i) ==
  IF Present(states[i].tools) /\ states[i].tools[1] # << >>
  THEN [p \in 1..Len(ServerTools(i)) |->
          [name |-> ServerTools(i)[p], description |-> ToolDescription(i, p),
           inputSchema |-> ToolSchema(i, p)]]
  ELSE << >>

\* The declaration of one tool of id i; the description falls back to
\* 'Tool from <serverName>' when the tool has none and, with emptyToo, also
\* when it is the empty string.
DeclarationOf(i, tool, emptyToo) ==
  [name |-> Chars(i) \o <<"_", "_">> \o tool.name,
   description |-> IF ~Present(tool.description)
                      \/ (emptyToo /\ tool.description[1] = EmptyString)
                   THEN <<"Tool from ", ConfigName(i)>>
                   ELSE tool.description[1],
   required |-> IF /\ Present(tool.inputSchema)
                   /\ Present(tool.inputSchema[1].required)
                   /\ tool.inputSchema[1].required[1].isArray
                THEN tool.inputSchema[1].required[1]
                ELSE [isArray |-> TRUE, items |-> << >>]]

DeclarationsOf(ids, emptyToo) ==
  Flatten([p \in 1..Len(ids) |->
             IF getStatus(ids[p]) = "connected"
             THEN [q \in 1..Len(ListedBy(ids[p])) |->
                     DeclarationOf(ids[p], ListedBy(ids[p])[q], emptyToo)]
             ELSE << >>])

\* The step at which the declarations are built and sent with the first call.
DeclaresToClaude ==
  run.pc = "ready" /\ run'.pc = "provider" /\ run.req.provider = "claude"

\* C35 as stated: one declaration per tool of every id of the connected-id
\* list whose status is 'connected', named serverId__toolName, its
\* description the tool's own unless absent, its 'required' an array.
C35_DeclarationsAsStated ==
  [][DeclaresToClaude => run'.declared = DeclarationsOf(run.connectedIds, FALSE)]_vars

\* C35: the same, the description falling back to 'Tool from <serverName>'
\* when the tool's description is absent or the empty string.
C35_Declarations ==
  [][DeclaresToClaude => run'.declared = DeclarationsOf(run.connectedIds, TRUE)]_vars

\* 'required' is an array in every declaration.
C35_RequiredIsArray ==
  \A p \in 1..Len(run.declared) : run.declared[p].required.isArray

\* C35 witness: both servers' tools were declared, among them the tool whose
\* `required` is not an array and the tool with the empty description.
C35_Witness ==
  /\ Len(run.declared) = 3
  /\ \E p \in 1..3 : /\ run.declared[p].name = <<"s", "1", "_", "_", "a", "_", "_", "b">>
                     /\ run.declared[p].required.items = << >>
  /\ \E p \in 1..3 : /\ run.declared[p].name = <<"s", "2", "_", "_", "t">>
                     /\ run.declared[p].description = <<"Tool from ", "Server Two">>
  /\ \E p \in 1..3 : run.declared[p].required.items = <<"x">>

\* ---------------------------------------------------------------- C36
\* The status and the capability lists of every id in tables T.
Snapshot(T) ==
  [i \in DOMAIN T.states |->
     [status |-> T.states[i].status, tools |-> T.states[i].tools,
      prompts |-> T.states[i].prompts, resources |-> T.states[i].resources]]

TwinsAgree ==
  /\ Snapshot(twin.g) = Snapshot(twin.m)
  /\ twin.asked = "isConnected" => twin.answers[1] = twin.answers[2]
  /\ Len(twin.g.chan) = Len(twin.m.chan)
  /\ twin.g.closes = twin.m.closes

\* C36: after every sequence of connect, disconnect, callTool, getState,
\* getStatus and isConnected calls given to both classes with the same
\* channel outcomes, the two have the same status and capability snapshot,
\* gave the same isConnected answer and opened and closed the same number of
\* channels.
C36_SameRegistry == TwinsAgree

\* The two agree as long as connect was never called for an id with a handle.
C36_AgreeUntilConnectedAgain == ~twin.again => TwinsAgree

\* ---------------------------------------------------------------- C34
IsToolResult(e) == Get(e, KeyType).s = TypeToolResult

\* The tool_result events of a list of events, in order; with every tool_call
\* followed by its tool_result before the next tool_call, the k-th of them
\* answers the k-th tool call.
ToolResultsOf(events) == SelectSeq(events, IsToolResult)

\* C34: the k-th tool-call entry has a result exactly when the k-th
\* tool_result event has been handled, and that result is the one the k-th
\* tool_result event carried, whatever later tool_result events carry, the
\* empty string and repeated tool names included.
C34_ResultStaysWithItsCall ==
  page.pc # "none" =>
    \A k \in 1..Len(page.toolCalls) :
      /\ Present(page.toolCalls[k].result) <=> k <= Len(ToolResultsOf(page.seen))
      /\ Present(page.toolCalls[k].result) =>
           page.toolCalls[k].result[1] = Get(ToolResultsOf(page.events)[k], KeyResult).s

\* The same for the calls whose results are not empty.
C34_NonEmptyResultsStay ==
  page.pc # "none" =>
    \A k \in 1..Len(page.toolCalls) :
      (\A j \in 1..Len(ToolResultsOf(page.events)) :
          Get(ToolResultsOf(page.events)[j], KeyResult).s # << >>)
        => /\ Present(page.toolCalls[k].result) <=> k <= Len(ToolResultsOf(page.seen))
           /\ Present(page.toolCalls[k].result) =>
                page.toolCalls[k].result[1]
                  = Get(ToolResultsOf(page.events)[k], KeyResult).s

\* ---------------------------------------------------------------- C38
\* What the events add to the assistant's content: a text event its content,
\* an error event the label followed by its message.
RECURSIVE ContentOf(_, _)
ContentOf(events, label) ==
  IF events = << >> THEN << >>
  ELSE LET e == Head(events)
           type == Get(e, KeyType).s
       IN (CASE type = TypeText -> Get(e, KeyContent).s
             [] type = TypeError -> label \o Get(e, KeyMessage).s
             [] OTHER -> << >>)
            \o ContentOf(Tail(events), label)

IsPrefixOf(s, t) == Len(s) <= Len(t) /\ SubSeq(t, 1, Len(s)) = s

\* However the bytes are cut into chunks, the events handled so far are the
\* first events written, the content is what they add, and when the stream
\* has ended every event has been handled.
SameForEveryChunking(label) ==
  page.pc # "none" =>
    /\ IsPrefixOf(page.seen, page.events)
    /\ page.content = ContentOf(page.seen, label)
    /\ page.pc = "done" => page.seen = page.events

\* C38 as stated: the content is the text events' contents with each error
\* event's message appended at its position.
C38_ChunkingAsStated == SameForEveryChunking(<< >>)

\* C38: for every partition of the text into chunks the reader handles the
\* same events in the same order, and the content is the concatenation of the
\* text events' contents, with the error label and the message appended
\* at the position of each error event.
C38_ChunkingIndependent == SameForEveryChunking(ErrorLabel)

\* C38 witness: an error event has been handled, and the bytes read so far
\* end inside the line of the next event and inside the two bytes of a
\* character.
C38_Witness ==
  /\ page.pc = "reading"
  /\ Len(page.seen) = 1
  /\ Get(page.seen[1], KeyType).s = TypeError
  /\ page.buffer # << >>
  /\ page.pending # << >>
====
